---------------------------- MODULE Spec2Model ----------------------------
(***************************************************************************)
(* Table extraction from scanned PDF pages (Akshit819/WebScrapping).       *)
(*                                                                         *)
(* The module models                                                       *)
(*   - the line reconstructor reconstruct_lines_intelligently in its three *)
(*     source variants (Final_pdf_processing.py, pdf_process.py,           *)
(*     table4.py),                                                         *)
(*   - the page gate page_has_table_and_keyword in its two variants,       *)
(*   - the region locator detect_largest_table_rectangle,                  *)
(*   - the page loop process_pdf_for_tables with crop_page_to_rectangle,   *)
(*     extract_table_from_image_data and try_pdfplumber_fallback,          *)
(*   - the announcement fetchers fetch_announcements and get_bse_csv and   *)
(*     the live monitor monitor_bse.                                       *)
(*                                                                         *)
(* Conventions.  A word is a record [text, x0, x1, y0, y2]:                *)
(*   x0, y0 = vertices[0].x, vertices[0].y   (top-left corner)             *)
(*   x1     = vertices[1].x                  (top-right corner)            *)
(*   y2     = vertices[2].y                  (bottom-right corner)         *)
(* text is a sequence of one-character strings.  Python evaluates          *)
(* (a + b) / 2 in floating point; the model compares the doubled values    *)
(* instead, so every quantity stays an integer.                            *)
(***************************************************************************)
EXTENDS Integers, Sequences, FiniteSets, TLC

VARIABLES
    file,         \* lines: the source file whose reconstruct_lines_intelligently runs
    input_words,  \* lines: the word list as passed by the caller
    all_words,    \* lines: the caller's list object (sorted in place by the call)
    lines,        \* lines: the value returned
    lpc,          \* lines: "ready" before the call, "done" after it
    gate_file,    \* gate: the source file whose page_has_table_and_keyword runs
    gate_text,    \* gate: what page.get_text() returns for the page
    gate_keyword, \* gate: the keyword argument
    gate_result,  \* gate: the boolean returned (FALSE before the call)
    gpc,          \* gate: "ready" before the call, "done" after it
    loc_page,     \* locator: the page (find_tables, get_drawings, get_text("dict"), rect)
    loc_result,   \* locator: what detect_largest_table_rectangle did
    rpc,          \* locator: "ready" before the call, "done" after it
    pfile,        \* run: the source file whose process_pdf_for_tables runs
    pdf_exists,   \* run: os.path.exists(pdf_path)
    pc,           \* run: the statement process_pdf_for_tables is at
    page_num,     \* run: enumerate's index of the current page
    visited,      \* run: the pages whose loop body was entered
    cur_page,     \* run: what the gate read on the current page (summary)
    table_rect,   \* run: table_rect of the current page
    cropbox,      \* run: the crop box of the current page object
    crop_state,   \* run: "none", or how crop_page_to_rectangle ended
    calls,        \* run: the costly calls made for the current page
    df,           \* run: [set, grid] the DataFrame of the primary pipeline
    fb,           \* run: [called, finds, path, raised, grid] of try_pdfplumber_fallback
    sheets,       \* run: the sheets of the output workbook, in order
    extracted_tables_count,
    page_status,  \* run: how the current page ended ("none" while in progress)
    ocr,          \* run: what the recognition call of the current page met
    exit_status,  \* run: "running", or the exit status of the script
    p_variant,    \* pipeline: the source file whose reconstruction pipeline runs
    p_scenario,   \* pipeline: the family the word list was drawn from
    p_words,      \* pipeline: the recognized words, in the order of the response
    p_lines,      \* pipeline: the lines reconstructed
    p_bounds,     \* pipeline: [raised, boundaries2] of the boundary detector
    p_grid,       \* pipeline: [raised, grid] of the grid builder
    ppc,          \* pipeline: "ready" before the run, "done" after it
    fetch_file,   \* fetcher: the source file whose loop runs
    fetch_page_num, \* fetcher: page_num of the loop
    announcements,  \* fetcher: rows accumulated (announcements / all_companies)
    requested,    \* fetcher: the page numbers requested so far, in order
    served,       \* fetcher: the responses received so far, in order
    fetch_result, \* fetcher: what the function handed over when it returned
    fpc,          \* fetcher: "loop", "stopped" after a break, "returned"
    csv_exists,   \* monitor: os.path.exists(filename)
    csv_links,    \* monitor: the PDF_Link column of the CSV file, row by row
    seen_links,   \* monitor: the set seen_links
    appended,     \* monitor: the links appended to the file by this run, in order
    last_rows,    \* monitor: the links of new_rows of the latest iteration
    polls,        \* monitor: iterations of the while True loop completed
    mpc           \* monitor: "start", "polling", "crashed"

lineVars == <<file, input_words, all_words, lines, lpc>>
gateVars == <<gate_file, gate_text, gate_keyword, gate_result, gpc>>
locVars == <<loc_page, loc_result, rpc>>
runVars == <<pfile, pdf_exists, pc, page_num, visited, cur_page, table_rect, cropbox,
             crop_state, calls, df, fb, sheets, extracted_tables_count, page_status,
             ocr, exit_status>>
pipeVars == <<p_variant, p_scenario, p_words, p_lines, p_bounds, p_grid, ppc>>
fetchVars == <<fetch_file, fetch_page_num, announcements, requested, served,
               fetch_result, fpc>>
monVars == <<csv_exists, csv_links, seen_links, appended, last_rows, polls, mpc>>
bseVars == <<fetchVars, monVars>>
otherVars == <<lineVars, gateVars, locVars, pipeVars, bseVars>>
vars == <<lineVars, gateVars, locVars, runVars, pipeVars, bseVars>>

(***************************************************************************)
(* Generic helpers                                                         *)
(***************************************************************************)
Range(s) == {s[i] : i \in DOMAIN s}

Abs(n) == IF n < 0 THEN -n ELSE n

\* number of occurrences of e in the sequence s
Count(e, s) == Cardinality({i \in DOMAIN s : s[i] = e})

\* all sequences over S of length 0..n
SeqsUpTo(S, n) == UNION {[1..k -> S] : k \in 0..n}

RECURSIVE Flatten(_)
Flatten(ls) == IF ls = <<>> THEN <<>> ELSE Head(ls) \o Flatten(Tail(ls))

(***************************************************************************)
(* Bounds of the line-reconstruction inputs                                *)
(***************************************************************************)
MaxWords == 3

LineXs == {50, 200}
LineYs == {100, 101, 104, 111}
LineHeights == {10, 14}
LineWidth == 30

LineWords ==
    {[text |-> <<"7">>, x0 |-> x, x1 |-> x + LineWidth, y0 |-> y, y2 |-> y + h] :
        x \in LineXs, y \in LineYs, h \in LineHeights}

LineFiles == {"Final_pdf_processing", "pdf_process", "table4"}

(***************************************************************************)
(* all_words.sort(key=lambda w: (w['vertices'][0].y, w['vertices'][0].x))  *)
(* list.sort is stable: words with equal keys keep their input order.      *)
(***************************************************************************)
KeyLE(a, b) == a.y0 < b.y0 \/ (a.y0 = b.y0 /\ a.x0 <= b.x0)

RECURSIVE InsertByKey(_, _)
InsertByKey(w, s) ==
    IF s = <<>> THEN <<w>>
    ELSE IF KeyLE(Head(s), w) THEN <<Head(s)>> \o InsertByKey(w, Tail(s))
    ELSE <<w>> \o s

RECURSIVE SortWords(_)
SortWords(s) ==
    IF s = <<>> THEN <<>>
    ELSE InsertByKey(s[Len(s)], SortWords(SubSeq(s, 1, Len(s) - 1)))

(***************************************************************************)
(* The row-break test of the three variants.                               *)
(***************************************************************************)
\* Final_pdf_processing.py: anchors (y0 + y2) / 2, vertical_gap = abs(..) > 10
RowBreakFinal(prev, cur) ==
    Abs((cur.y0 + cur.y2) - (prev.y0 + prev.y2)) > 2 * 10

\* pdf_process.py: vertical_gap > 5 or (vertical_gap > 1 and is_carriage_return)
RowBreakPdfProcess(prev, cur) ==
    LET vertical_gap == cur.y0 - prev.y0
        is_carriage_return == cur.x0 < prev.x0
    IN  vertical_gap > 5 \/ (vertical_gap > 1 /\ is_carriage_return)

\* table4.py: vertical_gap > 10 or (vertical_gap > 3 and is_carriage_return)
RowBreakTable4(prev, cur) ==
    LET vertical_gap == cur.y0 - prev.y0
        is_carriage_return == cur.x0 < prev.x0
    IN  vertical_gap > 10 \/ (vertical_gap > 3 /\ is_carriage_return)

\* table_extractor_image.py, build_table_with_correct_rows: vertical_gap > 8
RowBreakImage(prev, cur) == cur.y0 - prev.y0 > 8

RowBreak(f, prev, cur) ==
    CASE f = "Final_pdf_processing"  -> RowBreakFinal(prev, cur)
      [] f = "pdf_process"           -> RowBreakPdfProcess(prev, cur)
      [] f = "table4"                -> RowBreakTable4(prev, cur)
      [] f = "table_extractor_image" -> RowBreakImage(prev, cur)

(***************************************************************************)
(* The loop `for i in range(1, len(all_words))`: st = [lines, current_line]*)
(***************************************************************************)
RECURSIVE LineLoop(_, _, _, _)
LineLoop(f, sorted, i, st) ==
    IF i > Len(sorted) THEN st
    ELSE LET prev_word == st.current_line[Len(st.current_line)]
             current_word == sorted[i]
         IN  IF RowBreak(f, prev_word, current_word)
             THEN LineLoop(f, sorted, i + 1,
                           [lines |-> Append(st.lines, st.current_line),
                            current_line |-> <<current_word>>])
             ELSE LineLoop(f, sorted, i + 1,
                           [lines |-> st.lines,
                            current_line |-> Append(st.current_line, current_word)])

\* a variant that forgets the trailing lines.append(current_line)
reconstruct_lines_no_last_append(f, words) ==
    IF words = <<>> THEN <<>>
    ELSE LET sorted == SortWords(words)
         IN  LineLoop(f, sorted, 2, [lines |-> <<>>, current_line |-> <<sorted[1]>>]).lines

reconstruct_lines_intelligently(f, words) ==
    IF words = <<>> THEN <<>>
    ELSE LET sorted == SortWords(words)
             st == LineLoop(f, sorted, 2, [lines |-> <<>>, current_line |-> <<sorted[1]>>])
         IN  Append(st.lines, st.current_line)

(***************************************************************************)
(* page_has_table_and_keyword                                              *)
(*                                                                         *)
(* The text of a page is a record                                          *)
(*   chars    the characters in which the keyword may occur (a sequence of *)
(*            one-character strings over a four-letter alphabet),          *)
(*   num      len(re.findall(r'\d+[,.]?\d*', text))                        *)
(*   cur      len(re.findall(r'\$\s*\d+', text))                           *)
(*   pct      len(re.findall(r'\d+%', text))                               *)
(*   total    'total' in text      (text lower-cased)                      *)
(*   amount   'amount' in text     (text lower-cased)                      *)
(*   newlines text.count('\n')                                             *)
(*   words    len(text.split())                                            *)
(*   numbers  len(re.findall(r'[\d,.]+', text))   (pdf_process.py)         *)
(* Every match of \$\s*\d+ and every match of \d+% holds a digit run of    *)
(* its own, so cur <= num and pct <= num in every text.                    *)
(***************************************************************************)
KwTextLen == 3

KwAlphabet == {"k", "K", "w", "z"}

Keywords == {<<"k", "w">>, <<"K", "w">>}

TextCounts ==
    {c \in [num : {4, 10, 11}, cur : {3, 4}, pct : {2, 3}, total : BOOLEAN,
            amount : BOOLEAN, newlines : {10, 11}, words : {50, 51},
            numbers : {19, 20}] :
        c.cur <= c.num /\ c.pct <= c.num}

PageTexts ==
    {[chars |-> ch, num |-> c.num, cur |-> c.cur, pct |-> c.pct, total |-> c.total,
      amount |-> c.amount, newlines |-> c.newlines, words |-> c.words,
      numbers |-> c.numbers] :
        ch \in [1..KwTextLen -> KwAlphabet], c \in TextCounts}

GateFiles == {"Final_pdf_processing", "pdf_process"}

\* str.lower() on one character
LowerChar(c) == CASE c = "K" -> "k" [] c = "W" -> "w" [] c = "Z" -> "z" [] OTHER -> c

\* str.lower()
Lower(s) == [i \in DOMAIN s |-> LowerChar(s[i])]

\* Python's `sub in s` on strings
Contains(s, sub) ==
    \E off \in 0..(Len(s) - Len(sub)) : SubSeq(s, off + 1, off + Len(sub)) = sub

BoolToInt(b) == IF b THEN 1 ELSE 0

\* Final_pdf_processing.py: table_indicators, in the order of the list
table_indicators(text) ==
    << text.num > 10,
       text.cur > 3,
       text.pct > 2,
       text.total /\ text.amount,
       text.newlines > 10 /\ text.words > 50 >>

RECURSIVE SumBools(_)
SumBools(bs) == IF bs = <<>> THEN 0 ELSE BoolToInt(Head(bs)) + SumBools(Tail(bs))

\* a variant that accepts a page on a single signal
page_has_table_and_keyword_one_signal(f, text, keyword) ==
    IF ~Contains(Lower(text.chars), Lower(keyword)) THEN FALSE
    ELSE IF f = "Final_pdf_processing" THEN SumBools(table_indicators(text)) >= 1
    ELSE ~(text.numbers < 20)

\* a variant that compares the keyword with the text as printed
page_has_table_and_keyword_case_sensitive(f, text, keyword) ==
    IF ~Contains(text.chars, Lower(keyword)) THEN FALSE
    ELSE IF f = "Final_pdf_processing" THEN SumBools(table_indicators(text)) >= 2
    ELSE ~(text.numbers < 20)

page_has_table_and_keyword(f, text, keyword) ==
    IF ~Contains(Lower(text.chars), Lower(keyword)) THEN FALSE
    ELSE IF f = "Final_pdf_processing" THEN SumBools(table_indicators(text)) >= 2
    ELSE ~(text.numbers < 20)

(***************************************************************************)
(* detect_largest_table_rectangle                                          *)
(*                                                                         *)
(* A rectangle is a record [x0, y0, x1, y1].  A page is a record           *)
(*   rect      page.rect                                                   *)
(*   tables    page.find_tables(): [raises, list of table bounding boxes]  *)
(*   drawings  page.get_drawings(): [raises, items], the items of all      *)
(*             drawings in order, each [kind, rect]                        *)
(*   blocks    page.get_text("dict")["blocks"]: [raises, list], each block *)
(*             [bbox, has_lines, numeric]; numeric says that a line of the *)
(*             block matches \d+[,.]?\d*                                   *)
(***************************************************************************)
MaxTables == 2
MaxItems == 2
MaxBlocks == 2

Rect(a, b, c, d) == [x0 |-> a, y0 |-> b, x1 |-> c, y1 |-> d]

PageRect == Rect(0, 0, 600, 800)

TableBoxes == {Rect(50, 50, 300, 200), Rect(40, 300, 560, 700)}

DrawItems ==
    { [kind |-> "re", rect |-> Rect(100, 100, 500, 400)],
      [kind |-> "re", rect |-> Rect(10, 10, 60, 300)],
      [kind |-> "re", rect |-> Rect(100, 100, 400, 150)],
      [kind |-> "re", rect |-> Rect(-10, 0, 700, 900)],
      [kind |-> "l",  rect |-> Rect(0, 0, 600, 800)] }

TextBlocks ==
    { [bbox |-> Rect(100, 120, 300, 160), has_lines |-> TRUE,  numeric |-> TRUE],
      [bbox |-> Rect(5, 5, 595, 795),     has_lines |-> TRUE,  numeric |-> TRUE],
      [bbox |-> Rect(50, 50, 550, 100),   has_lines |-> TRUE,  numeric |-> FALSE],
      [bbox |-> Rect(0, 0, 100, 100),     has_lines |-> FALSE, numeric |-> FALSE],
      [bbox |-> Rect(650, 10, 690, 30),   has_lines |-> TRUE,  numeric |-> TRUE] }

\* what a call into the document library does: it raises, or returns a list
Outcomes(S, n) ==
    {[raises |-> TRUE, list |-> <<>>]} \cup
    {[raises |-> FALSE, list |-> l] : l \in SeqsUpTo(S, n)}

Pages ==
    [rect : {PageRect},
     tables : Outcomes(TableBoxes, MaxTables),
     drawings : Outcomes(DrawItems, MaxItems),
     blocks : Outcomes(TextBlocks, MaxBlocks)]

Max2(a, b) == IF a >= b THEN a ELSE b
Min2(a, b) == IF a <= b THEN a ELSE b
SetMax(S) == CHOOSE m \in S : \A e \in S : e <= m
SetMin(S) == CHOOSE m \in S : \A e \in S : m <= e

\* fitz.Rect.width, fitz.Rect.height
Width(r) == Max2(r.x1 - r.x0, 0)
Height(r) == Max2(r.y1 - r.y0, 0)
Area(r) == Width(r) * Height(r)

\* max(rs, key=lambda r: r.width * r.height): the first element of largest area
MaxByArea(rs) ==
    rs[CHOOSE i \in DOMAIN rs :
          /\ \A j \in DOMAIN rs : Area(rs[j]) <= Area(rs[i])
          /\ \A j \in 1..(i - 1) : Area(rs[j]) < Area(rs[i])]

\* the list comprehension order of `rectangles`: the "re" items wide and tall enough
RECURSIVE LargeRectangles(_)
LargeRectangles(items) ==
    IF items = <<>> THEN <<>>
    ELSE LET item == Head(items)
             width == Abs(item.rect.x1 - item.rect.x0)
             height == Abs(item.rect.y1 - item.rect.y0)
         IN  IF item.kind = "re" /\ width > 100 /\ height > 50
             THEN <<item.rect>> \o LargeRectangles(Tail(items))
             ELSE LargeRectangles(Tail(items))

\* numeric_blocks: the bounding boxes of the blocks with a numeric line
NumericBlocks(blocks) ==
    {blocks[i].bbox : i \in {k \in DOMAIN blocks : blocks[k].has_lines /\ blocks[k].numeric}}

\* the padded union of the numeric blocks, clamped as lines 64-69 clamp it
NumericUnion(nb, page_rect) ==
    LET min_x == SetMin({b.x0 : b \in nb})
        min_y == SetMin({b.y0 : b \in nb})
        max_x == SetMax({b.x1 : b \in nb})
        max_y == SetMax({b.y1 : b \in nb})
        padding == 20
    IN  Rect(Max2(min_x - padding, 0),
             Max2(min_y - padding, 0),
             Min2(max_x + padding, Width(page_rect)),
             Min2(max_y + padding, Height(page_rect)))

Raised == [raised |-> TRUE, rect |-> Rect(0, 0, 0, 0), strategy |-> "none"]
Returned(r, s) == [raised |-> FALSE, rect |-> r, strategy |-> s]

\* lines 35-74: everything after the try block around find_tables
AfterTables(page) ==
    IF page.drawings.raises \/ page.blocks.raises THEN Raised
    ELSE LET rectangles == LargeRectangles(page.drawings.list)
             text_blocks == page.blocks.list
             nb == NumericBlocks(text_blocks)
         IN  IF rectangles # <<>> THEN Returned(MaxByArea(rectangles), "b")
             ELSE IF text_blocks # <<>> /\ nb # {}
                  THEN Returned(NumericUnion(nb, page.rect), "c")
             ELSE Returned(page.rect, "d")

detect_largest_table_rectangle(page) ==
    IF ~page.tables.raises /\ page.tables.list # <<>>
    THEN Returned(MaxByArea(page.tables.list), "a")
    ELSE AfterTables(page)

(***************************************************************************)
(* Recognition response, word ingestion and grid building                  *)
(*                                                                         *)
(* A recognition response is a record                                      *)
(*   client_raises  vision.ImageAnnotatorClient() or the request raised    *)
(*   error          response.error.message, "" when there is none          *)
(*   words          the words of full_text_annotation, flattened in the    *)
(*                  order of the nested loops of get_all_words             *)
(* A grid is a sequence of rows, a row a sequence of cells, a cell a       *)
(* sequence of one-character strings.  pandas' DataFrame(grid).empty is    *)
(* true exactly when the grid has no row or its rows have no cell.         *)
(***************************************************************************)
MaxOcrWords == 2

OcrWords ==
    { [text |-> <<"7">>,      x0 |-> 50,  x1 |-> 80,  y0 |-> 100, y2 |-> 110],
      [text |-> <<"8">>,      x0 |-> 200, x1 |-> 230, y0 |-> 100, y2 |-> 110],
      [text |-> <<"a", "b">>, x0 |-> 90,  x1 |-> 120, y0 |-> 130, y2 |-> 140],
      [text |-> <<" ">>,      x0 |-> 50,  x1 |-> 60,  y0 |-> 100, y2 |-> 110] }

OcrResponses ==
    {[client_raises |-> TRUE, error |-> "", words |-> <<>>]} \cup
    {[client_raises |-> FALSE, error |-> "quota exceeded", words |-> <<>>]} \cup
    {[client_raises |-> FALSE, error |-> "", words |-> ws] :
        ws \in SeqsUpTo(OcrWords, MaxOcrWords)}

\* str.strip() over the model's only whitespace character
RECURSIVE LStrip(_)
LStrip(t) == IF t # <<>> /\ Head(t) = " " THEN LStrip(Tail(t)) ELSE t

RECURSIVE RStrip(_)
RStrip(t) ==
    IF t # <<>> /\ t[Len(t)] = " " THEN RStrip(SubSeq(t, 1, Len(t) - 1)) ELSE t

Strip(t) == RStrip(LStrip(t))

Digits == {"0", "1", "2", "3", "4", "5", "6", "7", "8", "9"}

\* pdf_process.py: bool(re.match(r'^-?[\d,.]+$', text)) or text in ['(', ')']
is_numeric_like_simple(text) ==
    LET t == Strip(text)
        body == IF t # <<>> /\ Head(t) = "-" THEN Tail(t) ELSE t
    IN  \/ body # <<>> /\ \A i \in DOMAIN body : body[i] \in Digits \cup {",", "."}
        \/ t \in {<<"(">>, <<")">>}

\* Final_pdf_processing.py get_all_words: whitespace-only words are dropped
get_all_words_final(response) ==
    SelectSeq(response.words, LAMBDA w : Len(Strip(w.text)) > 0)

\* pdf_process.py get_all_words: every word is kept
get_all_words_simple(response) == response.words

\* line.sort(key=lambda w: w['vertices'][0].x), stable
RECURSIVE InsertByX(_, _)
InsertByX(w, s) ==
    IF s = <<>> THEN <<w>>
    ELSE IF Head(s).x0 <= w.x0 THEN <<Head(s)>> \o InsertByX(w, Tail(s))
    ELSE <<w>> \o s

RECURSIVE SortByX(_)
SortByX(s) ==
    IF s = <<>> THEN <<>>
    ELSE InsertByX(s[Len(s)], SortByX(SubSeq(s, 1, Len(s) - 1)))

\* the loop `for word in line[1:]` of build_table_by_spacing:
\* st = [row, current_cell, last_x]
RECURSIVE SpacingLoop(_, _, _, _)
SpacingLoop(line, i, st, max_col_gap) ==
    IF i > Len(line) THEN st
    ELSE LET word == line[i]
             gap == word.x0 - st.last_x
         IN  IF gap > max_col_gap
             THEN SpacingLoop(line, i + 1,
                              [row |-> Append(st.row, Strip(st.current_cell)),
                               current_cell |-> word.text,
                               last_x |-> word.x1], max_col_gap)
             ELSE SpacingLoop(line, i + 1,
                              [row |-> st.row,
                               current_cell |-> st.current_cell \o <<" ">> \o word.text,
                               last_x |-> word.x1], max_col_gap)

SpacingRow(unsorted_line, max_col_gap) ==
    LET line == SortByX(unsorted_line)
        st == SpacingLoop(line, 2,
                          [row |-> <<>>, current_cell |-> line[1].text,
                           last_x |-> line[1].x1], max_col_gap)
    IN  Append(st.row, Strip(st.current_cell))

\* Final_pdf_processing.py build_table_by_spacing(lines, max_col_gap=30)
build_table_by_spacing(ls) == [k \in DOMAIN ls |-> SpacingRow(ls[k], 30)]

(***************************************************************************)
(* pdf_process.py detect_boundaries_by_gaps.  avg_gap * 1.5 and gap / 2    *)
(* are fractions in the source; the model keeps boundaries doubled, so     *)
(* boundaries2[i] = 2 * boundaries[i], and compares                        *)
(*   gap > 1.5 * sum / n      as   2 * n * gap > 3 * sum                   *)
(*   abs(boundary_x - b) < 20 as   abs(boundary_x2 - b2) < 40.             *)
(***************************************************************************)
NumericWordsOn(line) == SelectSeq(line, LAMBDA w : is_numeric_like_simple(w.text))

\* the gaps between consecutive numeric words of one line, in order
LineGaps(line) ==
    LET nw == NumericWordsOn(line)
    IN  [i \in 1..(Len(nw) - 1) |-> nw[i + 1].x0 - nw[i].x1]

RECURSIVE SeqSum(_)
SeqSum(s) == IF s = <<>> THEN 0 ELSE Head(s) + SeqSum(Tail(s))

\* gaps: every gap > 5 of every line
NoiseFreeGaps(ls) ==
    Flatten([k \in DOMAIN ls |-> SelectSeq(LineGaps(ls[k]), LAMBDA g : g > 5)])

\* the candidate boundaries (doubled) in the order the second scan meets them
BoundaryCandidates2(ls, gaps) ==
    Flatten([k \in DOMAIN ls |->
        LET nw == NumericWordsOn(ls[k])
            idx == SelectSeq([i \in 1..(Len(nw) - 1) |-> i],
                             LAMBDA i : 2 * Len(gaps) * (nw[i + 1].x0 - nw[i].x1)
                                            > 3 * SeqSum(gaps))
        IN  [j \in DOMAIN idx |-> 2 * nw[idx[j]].x1 + (nw[idx[j] + 1].x0 - nw[idx[j]].x1)]])

\* a variant that appends every candidate, however near to a boundary it is
AddBoundaries2_unfiltered(boundaries2, cands) == boundaries2 \o cands

RECURSIVE AddBoundaries2(_, _)
AddBoundaries2(boundaries2, cands) ==
    IF cands = <<>> THEN boundaries2
    ELSE IF \E i \in DOMAIN boundaries2 : Abs(Head(cands) - boundaries2[i]) < 2 * 20
         THEN AddBoundaries2(boundaries2, Tail(cands))
         ELSE AddBoundaries2(Append(boundaries2, Head(cands)), Tail(cands))

RECURSIVE InsertInt(_, _)
InsertInt(n, s) ==
    IF s = <<>> THEN <<n>>
    ELSE IF Head(s) <= n THEN <<Head(s)>> \o InsertInt(n, Tail(s))
    ELSE <<n>> \o s

RECURSIVE SortInts(_)
SortInts(s) == IF s = <<>> THEN <<>> ELSE InsertInt(Head(s), SortInts(Tail(s)))

\* a variant that returns the lone boundary 0 where the source raises
detect_boundaries_by_gaps_never_raises(ls) ==
    LET gaps == NoiseFreeGaps(ls)
    IN  IF gaps = <<>> THEN [raised |-> FALSE, boundaries2 |-> <<0>>]
        ELSE [raised |-> FALSE,
              boundaries2 |-> SortInts(AddBoundaries2(<<0>>, BoundaryCandidates2(ls, gaps)))]

\* [raised, boundaries2]: raised is the ValueError of line 164
detect_boundaries_by_gaps_simple(ls) ==
    LET gaps == NoiseFreeGaps(ls)
    IN  IF gaps = <<>> THEN [raised |-> TRUE, boundaries2 |-> <<>>]
        ELSE [raised |-> FALSE,
              boundaries2 |-> SortInts(AddBoundaries2(<<0>>, BoundaryCandidates2(ls, gaps)))]

\* col_index of a word: the last i >= 1 with word_mid_x > boundaries[i], else 0
ColIndex(word, boundaries2) ==
    LET hits == {i \in 2..Len(boundaries2) : word.x0 + word.x1 > boundaries2[i]}
    IN  IF hits = {} THEN 1 ELSE SetMax(hits)

RECURSIVE SimpleRowLoop(_, _, _, _)
SimpleRowLoop(line, i, row, boundaries2) ==
    IF i > Len(line) THEN row
    ELSE LET word == line[i]
             c == ColIndex(word, boundaries2)
         IN  SimpleRowLoop(line, i + 1,
                [row EXCEPT ![c] = IF row[c] = <<>> THEN word.text
                                   ELSE row[c] \o <<" ">> \o word.text],
                boundaries2)

SimpleRow(line, boundaries2) ==
    LET row == SimpleRowLoop(line, 1, [i \in DOMAIN boundaries2 |-> <<>>], boundaries2)
    IN  [i \in DOMAIN row |-> Strip(row[i])]

\* pdf_process.py build_table_simply: rows whose cells are all empty are dropped
build_table_simply(ls, boundaries2) ==
    SelectSeq([k \in DOMAIN ls |-> SimpleRow(ls[k], boundaries2)],
              LAMBDA final_row : \E i \in DOMAIN final_row : final_row[i] # <<>>)

\* DataFrame(grid).empty
DfEmpty(grid) == grid = <<>> \/ \A k \in DOMAIN grid : grid[k] = <<>>

\* [raised, grid] of Final_pdf_processing.py extract_table_from_image_data: the
\* try block turns every error into an empty DataFrame
extract_table_from_image_data_final(response) ==
    IF response.client_raises \/ response.error # ""
    THEN [raised |-> FALSE, grid |-> <<>>]
    ELSE LET words == get_all_words_final(response)
             ls == reconstruct_lines_intelligently("Final_pdf_processing", words)
         IN  IF words = <<>> THEN [raised |-> FALSE, grid |-> <<>>]
             ELSE IF ls = <<>> THEN [raised |-> FALSE, grid |-> <<>>]
             ELSE [raised |-> FALSE, grid |-> build_table_by_spacing(ls)]

\* [raised, grid] of pdf_process.py extract_table_from_image_data: no try block
extract_table_from_image_data_simple(response) ==
    IF response.client_raises \/ response.error # ""
    THEN [raised |-> TRUE, grid |-> <<>>]
    ELSE LET words == get_all_words_simple(response)
             ls == reconstruct_lines_intelligently("pdf_process", words)
             b == detect_boundaries_by_gaps_simple(ls)
         IN  IF b.raised THEN [raised |-> TRUE, grid |-> <<>>]
             ELSE [raised |-> FALSE, grid |-> build_table_simply(ls, b.boundaries2)]

(***************************************************************************)
(* The other boundary detectors and grid builder.                          *)
(*                                                                         *)
(* Final_pdf_processing.py is_numeric_like: the text, stripped, matches    *)
(* one of                                                                  *)
(*     ^-?[\d,]+\.?\d*$     ^-?\$[\d,]+\.?\d*$                              *)
(*     ^-?[\d,]+\.?\d*%$    ^\([\d,]+\.?\d*\)$                              *)
(* or is a lone parenthesis.                                               *)
(***************************************************************************)
\* t matches [\d,]+\.?\d* from its first to its last character
NumberCore(t) ==
    \E k \in 1..Len(t) :
        /\ \A i \in 1..k : t[i] \in Digits \cup {","}
        /\ \/ k = Len(t)
           \/ /\ t[k + 1] = "."
              /\ \A i \in (k + 2)..Len(t) : t[i] \in Digits

\* the text after an optional leading minus sign
AfterMinus(t) == IF t # <<>> /\ Head(t) = "-" THEN Tail(t) ELSE t

is_numeric_like_final(text) ==
    LET t == Strip(text)
        u == AfterMinus(t)
    IN  IF t = <<>> THEN FALSE
        ELSE \/ NumberCore(u)
             \/ u # <<>> /\ Head(u) = "$" /\ NumberCore(Tail(u))
             \/ Len(u) >= 2 /\ u[Len(u)] = "%" /\ NumberCore(SubSeq(u, 1, Len(u) - 1))
             \/ Len(t) >= 3 /\ t[1] = "(" /\ t[Len(t)] = ")"
                    /\ NumberCore(SubSeq(t, 2, Len(t) - 1))
             \/ t \in {<<"(">>, <<")">>}

\* table_extractor_image.py is_numeric: enclosing parentheses are removed, then
\* the text must match ^-?[\d,]*\.?\d+$
is_numeric(text) ==
    LET t == Strip(text)
        inner == IF t # <<>> /\ t[1] = "(" /\ t[Len(t)] = ")"
                 THEN SubSeq(t, 2, Len(t) - 1) ELSE t
        u == AfterMinus(inner)
    IN  IF t = <<>> THEN FALSE
        ELSE \E k \in 0..(Len(u) - 1) :
                /\ \A i \in 1..k : u[i] \in Digits \cup {","}
                /\ \/ \A i \in (k + 1)..Len(u) : u[i] \in Digits
                   \/ /\ u[k + 1] = "."
                      /\ k + 2 <= Len(u)
                      /\ \A i \in (k + 2)..Len(u) : u[i] \in Digits

\* Final_pdf_processing.py detect_boundaries_by_gaps: all_x_positions, unsorted
AllXPositions(ls) ==
    Flatten([k \in DOMAIN ls |->
        Flatten([j \in DOMAIN ls[k] |->
            IF is_numeric_like_final(ls[k][j].text) \/ Len(ls[k][j].text) > 2
            THEN <<ls[k][j].x0, ls[k][j].x1>> ELSE <<>>])])

\* the doubled mid points of the gaps > 30 between consecutive sorted positions
MidPoints2(xs) ==
    LET idx == SelectSeq([i \in 1..(Len(xs) - 1) |-> i], LAMBDA i : xs[i + 1] - xs[i] > 30)
    IN  [j \in DOMAIN idx |-> xs[idx[j]] + xs[idx[j] + 1]]

\* [raised, boundaries2]: this variant never raises
detect_boundaries_by_gaps_final(ls) ==
    LET all_x_positions == SortInts(AllXPositions(ls))
    IN  IF all_x_positions = <<>> THEN [raised |-> FALSE, boundaries2 |-> <<0>>]
        ELSE [raised |-> FALSE,
              boundaries2 |-> SortInts(AddBoundaries2(<<0>>, MidPoints2(all_x_positions)))]

\* table_extractor_image.py, default of detect_boundaries_with_projection
empty_column_threshold == 10

\* max_x: the largest x of a vertex, 0 when there is none larger
ProjectionMaxX(words) ==
    SetMax({0} \cup {words[i].x0 : i \in DOMAIN words} \cup {words[i].x1 : i \in DOMAIN words})

\* numeric_words, line 53
NumericWords(words) == SelectSeq(words, LAMBDA w : is_numeric(w.text))

\* histogram[i], i counted from 0: the numeric words whose span [x0, x1) holds i
Histogram(numeric_words, i) ==
    Cardinality({k \in DOMAIN numeric_words :
        numeric_words[k].x0 <= i /\ i < numeric_words[k].x1})

\* one pass of the loop over enumerate(histogram): st = [boundaries, in_valley]
ValleyStep(numeric_words, i, st) ==
    LET count == Histogram(numeric_words, i)
    IN  IF count <= 1 /\ ~st.in_valley
        THEN [boundaries |-> st.boundaries, in_valley |-> TRUE]
        ELSE IF count > 1 /\ st.in_valley
        THEN [boundaries |-> Append(st.boundaries, i), in_valley |-> FALSE]
        ELSE st

\* the passes for i = lo, ..., hi in this order, from state st: the passes of
\* the lower half of the range, then those of the upper half from the state
\* the lower half ended in (boundaries keeps its leading 0, so the upper half
\* always runs)
RECURSIVE ValleyLoop(_, _, _, _)
ValleyLoop(numeric_words, lo, hi, st) ==
    IF lo > hi THEN st
    ELSE IF lo = hi THEN ValleyStep(numeric_words, lo, st)
    ELSE LET mid == (lo + hi) \div 2
             lower == ValleyLoop(numeric_words, lo, mid, st)
         IN  IF lower.boundaries = <<>> THEN lower
             ELSE ValleyLoop(numeric_words, mid + 1, hi, lower)

\* final_boundaries: a boundary is kept when it is more than the threshold after
\* the last one kept
RECURSIVE MergeNear(_, _, _)
MergeNear(final_boundaries, boundaries, threshold) ==
    IF boundaries = <<>> THEN final_boundaries
    ELSE IF Head(boundaries) - final_boundaries[Len(final_boundaries)] > threshold
         THEN MergeNear(Append(final_boundaries, Head(boundaries)), Tail(boundaries),
                        threshold)
         ELSE MergeNear(final_boundaries, Tail(boundaries), threshold)

\* the boundaries of detect_boundaries_with_projection, as the source has them
ProjectionBoundaries(words, threshold) ==
    LET st == ValleyLoop(NumericWords(words), 0, ProjectionMaxX(words),
                         [boundaries |-> <<0>>, in_valley |-> FALSE])
    IN  MergeNear(<<Head(st.boundaries)>>, Tail(st.boundaries), threshold)

\* [raised, boundaries2], the boundaries doubled as those of the gap detectors
detect_boundaries_with_projection(words, threshold) ==
    LET final_boundaries == ProjectionBoundaries(words, threshold)
    IN  [raised |-> FALSE,
         boundaries2 |-> [i \in DOMAIN final_boundaries |-> 2 * final_boundaries[i]]]

\* table_extractor_image.py build_table_with_correct_rows, lines 110-130: the
\* join leaves out the space after "(" and before ")"
RECURSIVE SmartRowLoop(_, _, _, _)
SmartRowLoop(line, i, row, boundaries2) ==
    IF i > Len(line) THEN row
    ELSE LET word_text == line[i].text
             c == ColIndex(line[i], boundaries2)
             cell == row[c]
         IN  SmartRowLoop(line, i + 1,
                [row EXCEPT ![c] =
                    IF cell = <<>> THEN word_text
                    ELSE IF word_text = <<")">> \/ cell[Len(cell)] = "("
                         THEN cell \o word_text
                    ELSE cell \o <<" ">> \o word_text],
                boundaries2)

SmartRow(line, boundaries2) ==
    SmartRowLoop(line, 1, [i \in DOMAIN boundaries2 |-> <<>>], boundaries2)

\* rows are kept as built (not stripped) when a cell holds more than blanks
build_table_with_correct_rows(words, boundaries2) ==
    LET ls == reconstruct_lines_intelligently("table_extractor_image", words)
    IN  SelectSeq([k \in DOMAIN ls |-> SmartRow(ls[k], boundaries2)],
                  LAMBDA row : \E i \in DOMAIN row : Strip(row[i]) # <<>>)

NoBounds == [raised |-> FALSE, boundaries2 |-> <<>>]

NoGrid == [raised |-> FALSE, grid |-> <<>>]

(***************************************************************************)
(* The reconstruction pipeline of one page image: line reconstruction,     *)
(* boundary detection, grid building, as the four files chain them.        *)
(*   Final_pdf_processing.py  extract_table_from_image_data, lines 164-175 *)
(*   pdf_process.py           extract_table_from_image_data, lines 99-103  *)
(*   table4.py                __main__, lines 151-153                      *)
(*   table_extractor_image.py __main__, lines 143-145                      *)
(* The result is [lines, bounds, grid]; bounds.boundaries2 is empty when   *)
(* the detector was not called.                                            *)
(***************************************************************************)
PipeVariants == {"Final_pdf_processing", "pdf_process", "table4", "table_extractor_image"}

PipelineFinal(words) ==
    LET ls == reconstruct_lines_intelligently("Final_pdf_processing", words)
    IN  IF words = <<>> \/ ls = <<>>
        THEN [lines |-> ls, bounds |-> NoBounds, grid |-> NoGrid]
        ELSE [lines |-> ls,
              bounds |-> detect_boundaries_by_gaps_final(ls),
              grid |-> [raised |-> FALSE, grid |-> build_table_by_spacing(ls)]]

PipelineSimple(f, words) ==
    LET ls == reconstruct_lines_intelligently(f, words)
        b == detect_boundaries_by_gaps_simple(ls)
    IN  [lines |-> ls,
         bounds |-> b,
         grid |-> IF b.raised THEN [raised |-> TRUE, grid |-> <<>>]
                  ELSE [raised |-> FALSE, grid |-> build_table_simply(ls, b.boundaries2)]]

PipelineImage(words) ==
    LET b == detect_boundaries_with_projection(words, empty_column_threshold)
    IN  [lines |-> reconstruct_lines_intelligently("table_extractor_image", words),
         bounds |-> b,
         grid |-> [raised |-> FALSE,
                   grid |-> build_table_with_correct_rows(words, b.boundaries2)]]

Pipeline(f, words) ==
    CASE f = "Final_pdf_processing"  -> PipelineFinal(words)
      [] f = "pdf_process"           -> PipelineSimple(f, words)
      [] f = "table4"                -> PipelineSimple(f, words)
      [] f = "table_extractor_image" -> PipelineImage(words)

(***************************************************************************)
(* The word lists the pipeline is run on.                                  *)
(*                                                                         *)
(* Layouts: at most one line at each of two heights; a line starts at one  *)
(* of two x, its words are equally wide and follow each other at gaps      *)
(* below the noise floor's neighbourhood (6), of column size (40) or wider *)
(* (60); the first word of the upper line may be a text label.             *)
(***************************************************************************)
MaxLineWords == 3

PipeWordWidth == 20

PipeGaps == {6, 40, 60}

PipeStarts == {0, 15}

PipeYs == <<100, 150>>

Word(text, x, w, y) == [text |-> text, x0 |-> x, x1 |-> x + w, y0 |-> y, y2 |-> y + 10]

\* the words of one line: word k starts where word k - 1 ends plus gaps[k - 1]
RECURSIVE LayoutLine(_, _, _, _)
LayoutLine(x, label_first, gaps, y) ==
    LET text == IF label_first THEN <<"a", "b", "c">> ELSE <<"7">>
        word == Word(text, x, PipeWordWidth, y)
    IN  IF gaps = <<>> THEN <<word>>
        ELSE <<word>> \o LayoutLine(x + PipeWordWidth + Head(gaps), FALSE, Tail(gaps), y)

\* the lines that may stand at height y, the absent line included
LayoutLines(y, labels) ==
    {<<>>} \cup
    {LayoutLine(x, l, g, y) :
        x \in PipeStarts, l \in labels, g \in SeqsUpTo(PipeGaps, MaxLineWords - 1)}

Layouts ==
    {a \o b : a \in LayoutLines(PipeYs[1], BOOLEAN), b \in LayoutLines(PipeYs[2], {FALSE})}

(***************************************************************************)
(* The synthetic table of 3 rows and 3 columns: 40 units between the end   *)
(* of a column's word and the start of the next column's, 50 units between *)
(* the bottom of a row and the top of the next.  The cell at row r, column *)
(* c holds the digits r c, after the letter "n" in the text variety.       *)
(***************************************************************************)
GridCellText(kind, r, c) ==
    LET d == <<"1", "2", "3">>
    IN  IF kind = "numeric" THEN <<d[r], d[c]>> ELSE <<"n", d[r], d[c]>>

GridWord(kind, w, left, r, c) ==
    Word(GridCellText(kind, r, c), left + (c - 1) * (w + 40), w, 100 + (r - 1) * (10 + 50))

\* the nine words in reading order
GridWords(kind, w, left) ==
    [k \in 1..9 |-> GridWord(kind, w, left, ((k - 1) \div 3) + 1, ((k - 1) % 3) + 1)]

Reverse(q) == [i \in DOMAIN q |-> q[Len(q) + 1 - i]]

GridWidths == {10, 30, 40}

GridLefts == {0, 25}

GridKinds == {"numeric", "text"}

Grids3x3 ==
    {GridWords(k, w, l) : k \in GridKinds, w \in GridWidths, l \in GridLefts} \cup
    {Reverse(GridWords(k, w, l)) : k \in GridKinds, w \in GridWidths, l \in GridLefts}

(***************************************************************************)
(* The parenthesis scenario: "(", "1,234", ")" from left to right on one   *)
(* line at gaps of at most 5, alone or with a label far to the left or a   *)
(* number far to the right.                                                *)
(***************************************************************************)
ParenGaps == {0, 2, 5}

ParenStarts == {100, 140}

ParenExtras == {"none", "label", "number"}

ParenWords(x, g1, g2, extra) ==
    LET open == Word(<<"(">>, x, 5, 100)
        num == Word(<<"1", ",", "2", "3", "4">>, open.x1 + g1, 30, 100)
        close == Word(<<")">>, num.x1 + g2, 5, 100)
    IN  CASE extra = "none"   -> <<open, num, close>>
          [] extra = "label"  -> <<Word(<<"a", "b", "c">>, 0, 30, 100), open, num, close>>
          [] extra = "number" -> <<open, num, close, Word(<<"7">>, close.x1 + 60, 30, 100)>>

ParenLists ==
    {ParenWords(x, g1, g2, e) :
        x \in ParenStarts, g1 \in ParenGaps, g2 \in ParenGaps, e \in ParenExtras} \cup
    {Reverse(ParenWords(x, g1, g2, e)) :
        x \in ParenStarts, g1 \in ParenGaps, g2 \in ParenGaps, e \in ParenExtras}

PipeScenarios == {"layout", "grid3x3", "paren"}

PipeInputs(scenario) ==
    CASE scenario = "layout"  -> Layouts
      [] scenario = "grid3x3" -> Grids3x3
      [] scenario = "paren"   -> ParenLists

(***************************************************************************)
(* crop_page_to_rectangle(page, rect), lines 76-82.                        *)
(*                                                                         *)
(* PyMuPDF: set_cropbox(r) raises ValueError unless r is a non-empty       *)
(* rectangle inside the page's mediabox; after set_cropbox(r), page.rect   *)
(* is r shifted to the origin.  So line 81, page.set_cropbox(page.rect),   *)
(* sets the crop box to Rect(0, 0, r.width, r.height).                     *)
(* The outcome says where the call stops: "ok", or the call that raises.   *)
(***************************************************************************)
PositiveArea(r) == r.x1 > r.x0 /\ r.y1 > r.y0

Within(r, outer) ==
    /\ outer.x0 <= r.x0 /\ r.x0 <= outer.x1
    /\ outer.x0 <= r.x1 /\ r.x1 <= outer.x1
    /\ outer.y0 <= r.y0 /\ r.y0 <= outer.y1
    /\ outer.y0 <= r.y1 /\ r.y1 <= outer.y1

SetCropboxRejects(r, mediabox) == ~PositiveArea(r) \/ ~Within(r, mediabox)

\* page.rect of a page whose crop box is cb
PageRectOf(cb) == Rect(0, 0, Width(cb), Height(cb))

CropOutcomes == {"ok", "get_pixmap_raises", "tobytes_raises"}

\* [cropbox, raised, rendered]: the crop box afterwards, whether the call raised,
\* whether page.get_pixmap was called
crop_page_to_rectangle(cb, rect, mediabox, outcome) ==
    IF SetCropboxRejects(rect, mediabox)
    THEN [cropbox |-> cb, raised |-> TRUE, rendered |-> FALSE]
    ELSE IF outcome = "ok"
         THEN [cropbox |-> PageRectOf(rect), raised |-> FALSE, rendered |-> TRUE]
    ELSE [cropbox |-> rect, raised |-> TRUE, rendered |-> TRUE]

(***************************************************************************)
(* try_pdfplumber_fallback(pdf_path, page_num), lines 98-108.              *)
(*                                                                         *)
(* The environment of one call is a record                                 *)
(*   open_raises   pdfplumber.open(pdf_path) raises                        *)
(*   page_missing  pdf.pages[page_num] raises IndexError                   *)
(*   text          page.extract_text(): [none, chars]; none is Python's    *)
(*                 None, on which .lower() raises AttributeError           *)
(*   tables        page.extract_tables(): [raises, list of grids]          *)
(* Consolidated stands for the literal "consolidated" in the model's       *)
(* alphabet.                                                               *)
(***************************************************************************)
Consolidated == <<"k", "w">>

FallbackTexts ==
    { [none |-> TRUE,  chars |-> <<>>],
      [none |-> FALSE, chars |-> <<"k", "w">>],
      [none |-> FALSE, chars |-> <<"z", "K", "W">>],
      [none |-> FALSE, chars |-> <<"z", "w">>] }

FallbackGrids == { <<>>, << << <<"7">> >> >>, << << <<"a">>, <<"b">> >> >> }

FallbackTables ==
    { [raises |-> TRUE,  list |-> <<>>],
      [raises |-> FALSE, list |-> <<>>] } \cup
    { [raises |-> FALSE, list |-> <<g>>] : g \in FallbackGrids }

FallbackEnvs ==
    [open_raises : BOOLEAN, page_missing : BOOLEAN, text : FallbackTexts,
     tables : FallbackTables]

\* the body of the try block: [path, exc, grid]; path names the statement at which
\* the body ends, exc the exception it ends with ("none" when it does not raise)
FallbackBody(env) ==
    IF env.open_raises
    THEN [path |-> "open_fails", exc |-> "OpenError", grid |-> <<>>]
    ELSE IF env.page_missing
    THEN [path |-> "page_missing", exc |-> "IndexError", grid |-> <<>>]
    ELSE IF env.text.none
    THEN [path |-> "no_text", exc |-> "AttributeError", grid |-> <<>>]
    ELSE IF ~Contains(Lower(env.text.chars), Consolidated)
    THEN [path |-> "no_keyword", exc |-> "none", grid |-> <<>>]
    ELSE IF env.tables.raises
    THEN [path |-> "tables_fail", exc |-> "ExtractError", grid |-> <<>>]
    ELSE IF env.tables.list # <<>>
    THEN [path |-> "table", exc |-> "none", grid |-> env.tables.list[1]]
    ELSE [path |-> "no_table", exc |-> "none", grid |-> <<>>]

\* a variant whose handler is `except (IOError, IndexError)`
try_pdfplumber_fallback_narrow_except(env) ==
    LET b == FallbackBody(env)
    IN  IF b.exc = "none" THEN [path |-> b.path, raised |-> FALSE, grid |-> b.grid]
        ELSE IF b.exc \in {"OpenError", "IndexError"}
             THEN [path |-> b.path, raised |-> FALSE, grid |-> <<>>]
        ELSE [path |-> b.path, raised |-> TRUE, grid |-> <<>>]

\* `except Exception` catches every exception of the body
try_pdfplumber_fallback(env) ==
    LET b == FallbackBody(env)
    IN  IF b.exc = "none" THEN [path |-> b.path, raised |-> FALSE, grid |-> b.grid]
        ELSE [path |-> b.path, raised |-> FALSE, grid |-> <<>>]

\* the page text contains the keyword, letter case ignored
HasKeyword(text, keyword) ==
    \E off \in 0..(Len(text.chars) - Len(keyword)) :
        \A i \in 1..Len(keyword) :
            LowerChar(text.chars[off + i]) = LowerChar(keyword[i])

\* the five table-likelihood signals that hold on the text
SignalsHolding(text) ==
    {s \in {"numeric", "currency", "percentage", "total_amount", "density"} :
        CASE s = "numeric"      -> text.num >= 11
          [] s = "currency"     -> text.cur >= 4
          [] s = "percentage"   -> text.pct >= 3
          [] s = "total_amount" -> text.total /\ text.amount
          [] s = "density"      -> text.newlines >= 11 /\ text.words >= 51}

(***************************************************************************)
(* process_pdf_for_tables.  Final_pdf_processing.py lines 110-154 and      *)
(* pdf_process.py lines 33-83.  The pages of the document are read one by  *)
(* one; what a page holds is drawn when the statement that reads it runs.  *)
(* The call is made with the default keyword "consolidated".               *)
(***************************************************************************)
NumPages == 2

RunFiles == {"Final_pdf_processing", "pdf_process"}

NoPage == [kw |-> FALSE, few_numeric |-> FALSE, few_signals |-> FALSE, gate |-> FALSE]

NoDf == [set |-> FALSE, grid |-> <<>>]

NoFb ==
    [called |-> FALSE, finds |-> FALSE, path |-> "none", raised |-> FALSE, grid |-> <<>>]

\* what the fallback meets: every call succeeds, the text holds "consolidated"
\* and extract_tables() returns at least one table
FallbackFinds(env) ==
    /\ ~env.open_raises
    /\ ~env.page_missing
    /\ ~env.text.none
    /\ HasKeyword(env.text, Consolidated)
    /\ ~env.tables.raises
    /\ env.tables.list # <<>>

\* lines 134-140 of Final_pdf_processing.py: where the page goes once df is known
AfterExtractAlwaysFallback(grid) == "fallback"

AfterExtract(grid) == IF ~DfEmpty(grid) THEN "write" ELSE "fallback"

\* the numeric-token signal of the gate of file f fails on the text
FewNumeric(f, text) ==
    IF f = "Final_pdf_processing" THEN text.num <= 10 ELSE text.numbers < 20

\* the page is over: `continue`, the end of the loop body, or the except clause
EndPage(status) ==
    /\ page_status' = status
    /\ page_num' = page_num + 1
    /\ pc' = "loop"

Start ==
    /\ pc = "start"
    /\ pc' = IF pdf_exists THEN "loop" ELSE "not_found"
    /\ UNCHANGED <<otherVars, ocr, exit_status, pfile, pdf_exists,
                   page_num, visited, cur_page, table_rect, cropbox,
                   crop_state, calls, df, fb, sheets, extracted_tables_count,
                   page_status>>

\* for page_num, page in enumerate(doc)
LoopHead ==
    /\ pc = "loop"
    /\ IF page_num = NumPages
       THEN /\ pc' = "close"
            /\ UNCHANGED <<visited, cur_page, table_rect, cropbox, crop_state, calls,
                           df, fb, page_status, ocr>>
       ELSE /\ pc' = "gate"
            /\ visited' = visited \cup {page_num}
            /\ cur_page' = NoPage
            /\ table_rect' = PageRect
            /\ cropbox' = PageRect
            /\ crop_state' = "none"
            /\ calls' = {}
            /\ df' = NoDf
            /\ fb' = NoFb
            /\ page_status' = "none"
            /\ ocr' = "none"
    /\ UNCHANGED <<otherVars, exit_status, pfile, pdf_exists, page_num, sheets,
                   extracted_tables_count>>

\* page.get_text() raises inside page_has_table_and_keyword: the call is outside
\* the try block, the exception leaves the loop and the function
GateRaises ==
    /\ pc = "gate"
    /\ pc' = "aborted"
    /\ page_status' = "gate_raised"
    /\ UNCHANGED <<otherVars, ocr, exit_status, pfile, pdf_exists,
                   page_num, visited, cur_page, table_rect, cropbox,
                   crop_state, calls, df, fb, sheets, extracted_tables_count>>

\* what the gate of file f meets and answers on a page text: the keyword is there,
\* the numeric signal fails, fewer than two signals hold, and the value returned
GateOn(f, text) ==
    [kw |-> HasKeyword(text, Consolidated),
     few_numeric |-> FewNumeric(f, text),
     few_signals |-> Cardinality(SignalsHolding(text)) < 2,
     gate |-> page_has_table_and_keyword(f, text, Consolidated)]

\* the gate on every page text
GateOutcomes == [f \in RunFiles |-> {GateOn(f, text) : text \in PageTexts}]

\* if not page_has_table_and_keyword(page, keyword): continue
Gate ==
    /\ pc = "gate"
    /\ \E g \in GateOutcomes[pfile] :
          /\ cur_page' = g
          /\ IF g.gate
             THEN /\ pc' = IF pfile = "Final_pdf_processing" THEN "locate" ELSE "render"
                  /\ UNCHANGED <<page_num, page_status>>
             ELSE EndPage("skipped")
    /\ UNCHANGED <<otherVars, ocr, exit_status, pfile, pdf_exists,
                   visited, table_rect, cropbox, crop_state, calls,
                   df, fb, sheets, extracted_tables_count>>

\* the locator on every page
LocateOutcomes == {detect_largest_table_rectangle(g) : g \in Pages}

\* table_rect = detect_largest_table_rectangle(page)
Locate ==
    /\ pc = "locate"
    /\ \E r \in LocateOutcomes :
          IF r.raised
          THEN EndPage("error") /\ UNCHANGED table_rect
          ELSE /\ table_rect' = r.rect
               /\ pc' = "crop"
               /\ UNCHANGED <<page_num, page_status>>
    /\ UNCHANGED <<otherVars, ocr, exit_status, pfile, pdf_exists,
                   visited, cur_page, cropbox, crop_state, calls,
                   df, fb, sheets, extracted_tables_count>>

\* img_bytes = crop_page_to_rectangle(page, table_rect)
Crop ==
    /\ pc = "crop"
    /\ \E o \in CropOutcomes :
          LET c == crop_page_to_rectangle(cropbox, table_rect, PageRect, o)
          IN  /\ cropbox' = c.cropbox
              /\ calls' = calls \cup {"crop_page_to_rectangle"}
                               \cup (IF c.rendered THEN {"get_pixmap"} ELSE {})
              /\ crop_state' = IF c.raised THEN "raised" ELSE "returned"
              /\ IF c.raised
                 THEN EndPage("error")
                 ELSE pc' = "preprocess" /\ UNCHANGED <<page_num, page_status>>
    /\ UNCHANGED <<otherVars, ocr, exit_status, pfile, pdf_exists,
                   visited, cur_page, table_rect, df, fb, sheets,
                   extracted_tables_count>>

\* img_bytes = preprocess_image_bytes(img_bytes); Pillow may raise
Preprocess ==
    /\ pc = "preprocess"
    /\ \E ok \in BOOLEAN :
          IF ok THEN pc' = "debug" /\ UNCHANGED <<page_num, page_status>>
          ELSE EndPage("error")
    /\ UNCHANGED <<otherVars, ocr, exit_status, pfile, pdf_exists,
                   visited, cur_page, table_rect, cropbox, crop_state,
                   calls, df, fb, sheets, extracted_tables_count>>

\* with open(f"debug_page_{page_num + 1}.png", "wb") as f: f.write(img_bytes)
DebugWrite ==
    /\ pc = "debug"
    /\ \E ok \in BOOLEAN :
          IF ok THEN pc' = "extract" /\ UNCHANGED <<page_num, page_status>>
          ELSE EndPage("error")
    /\ UNCHANGED <<otherVars, ocr, exit_status, pfile, pdf_exists,
                   visited, cur_page, table_rect, cropbox, crop_state,
                   calls, df, fb, sheets, extracted_tables_count>>

\* pdf_process.py: pix = page.get_pixmap(dpi=300); img_bytes = pix.tobytes("png"),
\* outside the try block
Render ==
    /\ pc = "render"
    /\ calls' = calls \cup {"get_pixmap"}
    /\ \E ok \in BOOLEAN :
          IF ok THEN pc' = "extract" /\ UNCHANGED page_status
          ELSE pc' = "aborted" /\ page_status' = "render_raised"
    /\ UNCHANGED <<otherVars, ocr, exit_status, pfile, pdf_exists,
                   page_num, visited, cur_page, table_rect, cropbox,
                   crop_state, df, fb, sheets, extracted_tables_count>>

\* the primary pipeline on every recognition response
\* what get_full_ocr_response and get_all_words meet: the client raises, the
\* response carries an error message, or it holds the words given
ResponseKind(response, words) ==
    IF response.client_raises THEN "client_raises"
    ELSE IF response.error # "" THEN "error"
    ELSE IF words = <<>> THEN "no_words"
    ELSE "words"

\* [raised, grid] of the call together with what the call met
ExtractOutcomesFinal ==
    {[raised |-> extract_table_from_image_data_final(response).raised,
      grid |-> extract_table_from_image_data_final(response).grid,
      met |-> ResponseKind(response, get_all_words_final(response))] :
        response \in OcrResponses}

ExtractOutcomesSimple ==
    {[raised |-> extract_table_from_image_data_simple(response).raised,
      grid |-> extract_table_from_image_data_simple(response).grid,
      met |-> ResponseKind(response, get_all_words_simple(response))] :
        response \in OcrResponses}

\* Final_pdf_processing.py: df = extract_table_from_image_data(img_bytes)
ExtractFinal ==
    /\ pc = "extract"
    /\ pfile = "Final_pdf_processing"
    /\ calls' = calls \cup {"ocr"}
    /\ \E r \in ExtractOutcomesFinal :
          /\ ocr' = r.met
          /\ IF r.raised
             THEN EndPage("error") /\ UNCHANGED df
             ELSE /\ df' = [set |-> TRUE, grid |-> r.grid]
                  /\ pc' = AfterExtract(r.grid)
                  /\ UNCHANGED <<page_num, page_status>>
    /\ UNCHANGED <<otherVars, exit_status, pfile, pdf_exists,
                   visited, cur_page, table_rect, cropbox, crop_state,
                   fb, sheets, extracted_tables_count>>

\* pdf_process.py: df = extract_table_from_image_data(img_bytes), then lines 67-74
ExtractSimple ==
    /\ pc = "extract"
    /\ pfile = "pdf_process"
    /\ calls' = calls \cup {"ocr"}
    /\ \E r \in ExtractOutcomesSimple :
          /\ ocr' = r.met
          /\ IF r.raised
             THEN EndPage("error") /\ UNCHANGED df
             ELSE /\ df' = [set |-> TRUE, grid |-> r.grid]
                  /\ IF ~DfEmpty(r.grid)
                     THEN pc' = "write" /\ UNCHANGED <<page_num, page_status>>
                     ELSE EndPage("no_table")
    /\ UNCHANGED <<otherVars, exit_status, pfile, pdf_exists,
                   visited, cur_page, table_rect, cropbox, crop_state,
                   fb, sheets, extracted_tables_count>>

\* a variant that leaves the page number out of the sheet name
NewSheet_unnumbered(kind, n, grid) == [kind |-> kind, page |-> 1, grid |-> grid]

\* the sheet to_excel adds: kind and page stand for the sheet name
\* f'Page_{page_num + 1}_Table' or f'Fallback_{page_num + 1}', grid for the
\* DataFrame written
NewSheet(kind, n, grid) == [kind |-> kind, page |-> n, grid |-> grid]

\* df.to_excel(writer, sheet_name=f'Page_{page_num + 1}_Table', ...)
WriteSheet ==
    /\ pc = "write"
    /\ \E ok \in BOOLEAN :
          IF ok
          THEN /\ sheets' = Append(sheets, NewSheet("Page_Table", page_num + 1, df.grid))
               /\ extracted_tables_count' = extracted_tables_count + 1
               /\ EndPage("written")
          ELSE EndPage("error") /\ UNCHANGED <<sheets, extracted_tables_count>>
    /\ UNCHANGED <<otherVars, ocr, exit_status, pfile, pdf_exists,
                   visited, cur_page, table_rect, cropbox, crop_state,
                   calls, df, fb>>

\* the fallback in every environment: what it met (finds) and what it did
FallbackOn(env) ==
    LET r == try_pdfplumber_fallback(env)
    IN  [called |-> TRUE, finds |-> FallbackFinds(env), path |-> r.path,
         raised |-> r.raised, grid |-> r.grid]

FallbackOutcomes == {FallbackOn(env) : env \in FallbackEnvs}

\* fallback_df = try_pdfplumber_fallback(pdf_path, page_num)
Fallback ==
    /\ pc = "fallback"
    /\ calls' = calls \cup {"fallback"}
    /\ \E r \in FallbackOutcomes :
          /\ fb' = r
          /\ IF r.raised THEN EndPage("error")
             ELSE IF ~DfEmpty(r.grid)
                  THEN pc' = "fallback_write" /\ UNCHANGED <<page_num, page_status>>
             ELSE EndPage("no_table")
    /\ UNCHANGED <<otherVars, ocr, exit_status, pfile, pdf_exists,
                   visited, cur_page, table_rect, cropbox, crop_state,
                   df, sheets, extracted_tables_count>>

\* fallback_df.to_excel(writer, sheet_name=f'Fallback_{page_num + 1}', ...)
WriteFallbackSheet ==
    /\ pc = "fallback_write"
    /\ \E ok \in BOOLEAN :
          IF ok
          THEN /\ sheets' = Append(sheets, NewSheet("Fallback", page_num + 1, fb.grid))
               /\ extracted_tables_count' = extracted_tables_count + 1
               /\ EndPage("fallback_written")
          ELSE EndPage("error") /\ UNCHANGED <<sheets, extracted_tables_count>>
    /\ UNCHANGED <<otherVars, ocr, exit_status, pfile, pdf_exists,
                   visited, cur_page, table_rect, cropbox, crop_state,
                   calls, df, fb>>

\* the end of the with block (writer.close() saves the workbook) and of the
\* function; openpyxl refuses to save a workbook without a sheet in the
\* versions where pandas creates none, and the IndexError then leaves the
\* function
CloseOutcomes == IF sheets = <<>> THEN {"saved", "raises"} ELSE {"saved"}

Close ==
    /\ pc = "close"
    /\ \E outcome \in CloseOutcomes :
          pc' = IF outcome = "saved" THEN "done" ELSE "crashed"
    /\ UNCHANGED <<otherVars, ocr, exit_status, pfile, pdf_exists,
                   page_num, visited, cur_page, table_rect, cropbox,
                   crop_state, calls, df, fb, sheets, extracted_tables_count,
                   page_status>>

\* __main__: process_pdf_for_tables has returned (None, whether the document
\* was missing or processed) and the script ends, or an error has left it
Exit ==
    /\ pc \in {"not_found", "done", "crashed"}
    /\ exit_status' = IF pc = "crashed" THEN "1" ELSE "0"
    /\ pc' = "exited"
    /\ UNCHANGED <<otherVars, ocr, pfile, pdf_exists,
                   page_num, visited, cur_page, table_rect, cropbox,
                   crop_state, calls, df, fb, sheets, extracted_tables_count,
                   page_status>>

(***************************************************************************)
(* Each specification below runs one part of the program; the variables of *)
(* the other parts rest at these values.                                   *)
(***************************************************************************)
IdleLines ==
    /\ file = "Final_pdf_processing"
    /\ input_words = <<>>
    /\ all_words = <<>>
    /\ lines = <<>>
    /\ lpc = "idle"

IdleGate ==
    /\ gate_file = "Final_pdf_processing"
    /\ gate_text = [chars |-> <<>>]
    /\ gate_keyword = <<>>
    /\ gate_result = FALSE
    /\ gpc = "idle"

IdleLoc ==
    /\ loc_page = [rect |-> PageRect]
    /\ loc_result = Raised
    /\ rpc = "idle"

IdleRun ==
    /\ pfile = "Final_pdf_processing"
    /\ pdf_exists = FALSE
    /\ pc = "idle"
    /\ page_num = 0
    /\ visited = {}
    /\ cur_page = NoPage
    /\ table_rect = PageRect
    /\ cropbox = PageRect
    /\ crop_state = "none"
    /\ calls = {}
    /\ df = NoDf
    /\ fb = NoFb
    /\ sheets = <<>>
    /\ extracted_tables_count = 0
    /\ page_status = "none"
    /\ ocr = "none"
    /\ exit_status = "running"

IdlePipe ==
    /\ p_variant = "Final_pdf_processing"
    /\ p_scenario = "none"
    /\ p_words = <<>>
    /\ p_lines = <<>>
    /\ p_bounds = NoBounds
    /\ p_grid = NoGrid
    /\ ppc = "idle"

IdleFetch ==
    /\ fetch_file = "bse_live_data"
    /\ fetch_page_num = 0
    /\ announcements = <<>>
    /\ requested = <<>>
    /\ served = <<>>
    /\ fetch_result = <<>>
    /\ fpc = "idle"

IdleMonitor ==
    /\ csv_exists = FALSE
    /\ csv_links = <<>>
    /\ seen_links = {}
    /\ appended = <<>>
    /\ last_rows = <<>>
    /\ polls = 0
    /\ mpc = "idle"

IdleBse == IdleFetch /\ IdleMonitor

(***************************************************************************)
(* Specification of the gate on its own                                    *)
(***************************************************************************)
InitGate ==
    /\ gate_file \in GateFiles
    /\ gate_text \in PageTexts
    /\ gate_keyword \in Keywords
    /\ gate_result = FALSE
    /\ gpc = "ready"
    /\ IdleLines
    /\ IdleLoc
    /\ IdleRun
    /\ IdlePipe
    /\ IdleBse

CallGate ==
    /\ gpc = "ready"
    /\ gate_result' = page_has_table_and_keyword(gate_file, gate_text, gate_keyword)
    /\ gpc' = "done"
    /\ UNCHANGED <<gate_file, gate_text, gate_keyword, lineVars, locVars, runVars,
                   pipeVars, bseVars>>

NextGate == CallGate

SpecGate == InitGate /\ [][NextGate]_vars

(***************************************************************************)
(* C3 (as claimed): in both source files page_has_table_and_keyword        *)
(* returns true exactly when the text contains the keyword                 *)
(* case-insensitively and at least two of the five signals hold.           *)
(***************************************************************************)
C3_GateIsKeywordAndTwoSignals ==
    gpc = "done" =>
        (gate_result <=> (/\ HasKeyword(gate_text, gate_keyword)
                          /\ Cardinality(SignalsHolding(gate_text)) >= 2))

(***************************************************************************)
(* C3 (amended): the gate returns false whenever the keyword is absent;    *)
(* in Final_pdf_processing.py it returns true exactly when the keyword is  *)
(* present (case-insensitively) and at least two of the five signals hold; *)
(* in pdf_process.py it returns true exactly when the keyword is present   *)
(* and the text holds at least 20 numeric tokens.                          *)
(***************************************************************************)
C3_GatePerFile ==
    gpc = "done" =>
        /\ ~HasKeyword(gate_text, gate_keyword) => gate_result = FALSE
        /\ gate_file = "Final_pdf_processing" =>
               (gate_result <=> (/\ HasKeyword(gate_text, gate_keyword)
                                 /\ Cardinality(SignalsHolding(gate_text)) >= 2))
        /\ gate_file = "pdf_process" =>
               (gate_result <=> (/\ HasKeyword(gate_text, gate_keyword)
                                 /\ gate_text.numbers >= 20))

\* accepted in Final_pdf_processing.py on exactly two signals, the keyword in
\* another letter case than the argument
C3_Witness ==
    /\ gpc = "done"
    /\ gate_result = TRUE
    /\ gate_file = "Final_pdf_processing"
    /\ Cardinality(SignalsHolding(gate_text)) = 2
    /\ ~Contains(gate_text.chars, gate_keyword)

(***************************************************************************)
(* Specification of a run of process_pdf_for_tables                        *)
(***************************************************************************)
Init ==
    /\ pfile \in RunFiles
    /\ pdf_exists \in BOOLEAN
    /\ pc = "start"
    /\ page_num = 0
    /\ visited = {}
    /\ cur_page = NoPage
    /\ table_rect = PageRect
    /\ cropbox = PageRect
    /\ crop_state = "none"
    /\ calls = {}
    /\ df = NoDf
    /\ fb = NoFb
    /\ sheets = <<>>
    /\ extracted_tables_count = 0
    /\ page_status = "none"
    /\ ocr = "none"
    /\ exit_status = "running"
    /\ IdleLines
    /\ IdleGate
    /\ IdleLoc
    /\ IdlePipe
    /\ IdleBse

Next ==
    \/ Start
    \/ LoopHead
    \/ GateRaises
    \/ Gate
    \/ Locate
    \/ Crop
    \/ Preprocess
    \/ DebugWrite
    \/ Render
    \/ ExtractFinal
    \/ ExtractSimple
    \/ WriteSheet
    \/ Fallback
    \/ WriteFallbackSheet
    \/ Close
    \/ Exit

Spec == Init /\ [][Next]_vars

AllPages == 0..(NumPages - 1)

(***************************************************************************)
(* C1 (as claimed): whatever step of a page raises, the gate check         *)
(* included, the pages after it are still processed: when                  *)
(* process_pdf_for_tables has ended on an existing document, every page    *)
(* was visited.                                                            *)
(***************************************************************************)
C1_EveryPageVisited ==
    pc \in {"done", "aborted"} => visited = AllPages

\* the number, counted from 1, of the page the per-page variables belong to
CurPageNo ==
    IF pc \in {"loop", "close", "done", "crashed", "exited"} THEN page_num
    ELSE page_num + 1

\* the calls that rasterize a page or send it to the recognition service
CostlyCalls == {"crop_page_to_rectangle", "get_pixmap", "ocr"}

(***************************************************************************)
(* C2 (as claimed): a page that contains the keyword but has fewer numeric *)
(* tokens than the gate's numeric signal requires is skipped before any    *)
(* rasterization or recognition call.                                      *)
(***************************************************************************)
C2_FewNumericNeverRecognized ==
    (cur_page.kw /\ cur_page.few_numeric) => calls \cap CostlyCalls = {}

(***************************************************************************)
(* C2 (amended): a page that contains the keyword but has fewer numeric    *)
(* tokens than required is skipped before any rasterization or recognition *)
(* call in pdf_process.py always, and in Final_pdf_processing.py whenever  *)
(* fewer than two of the five signals hold on it.                          *)
(***************************************************************************)
C2_RejectedPageNeverRecognized ==
    (/\ cur_page.kw
     /\ cur_page.few_numeric
     /\ pfile = "Final_pdf_processing" => cur_page.few_signals)
        => /\ calls \cap CostlyCalls = {}
           /\ ~cur_page.gate
           /\ pc \notin {"locate", "crop", "preprocess", "debug", "render", "extract",
                         "write", "fallback", "fallback_write"}

\* the second page of a Final_pdf_processing.py run, skipped for too few numbers
C2_Witness ==
    /\ pfile = "Final_pdf_processing"
    /\ pc = "loop"
    /\ page_num = 2
    /\ page_status = "skipped"
    /\ cur_page.kw
    /\ cur_page.few_numeric
    /\ calls = {}

(***************************************************************************)
(* C4: try_pdfplumber_fallback is called for a page only after the gate    *)
(* has accepted the page and the primary pipeline (crop, render,           *)
(* recognition) has produced an empty grid; a sheet written from the       *)
(* fallback holds the fallback's grid, and that page gets no sheet of the  *)
(* primary pipeline.                                                       *)
(***************************************************************************)
C4_FallbackOnlyAfterEmptyPrimary ==
    /\ fb.called =>
          /\ cur_page.gate
          /\ df.set
          /\ DfEmpty(df.grid)
          /\ {"get_pixmap", "ocr"} \subseteq calls
          /\ \A i \in DOMAIN sheets :
                sheets[i].page = CurPageNo =>
                    (sheets[i].kind = "Fallback" /\ sheets[i].grid = fb.grid)
    /\ ("fallback" \in calls \/ pc \in {"fallback", "fallback_write"}) =>
          (cur_page.gate /\ df.set /\ DfEmpty(df.grid))
    /\ \A i \in DOMAIN sheets :
          (sheets[i].kind = "Fallback" /\ sheets[i].page = CurPageNo) => fb.called

\* the second page ends with a sheet written from the fallback
C4_Witness ==
    /\ page_status = "fallback_written"
    /\ fb.called
    /\ page_num = 2
    /\ sheets[Len(sheets)].kind = "Fallback"
    /\ sheets[Len(sheets)].grid = fb.grid

(***************************************************************************)
(* C5: try_pdfplumber_fallback never raises to its caller, and it returns  *)
(* an empty grid whenever something inside it fails, the keyword           *)
(* "consolidated" is absent or no table is found.                          *)
(***************************************************************************)
C5_FallbackNeverRaises ==
    fb.called =>
        /\ ~fb.raised
        /\ ~fb.finds => DfEmpty(fb.grid)

\* extract_text() returned None: the AttributeError is caught, the page has no table
C5_Witness ==
    /\ fb.called
    /\ fb.path = "no_text"
    /\ page_status = "no_table"
    /\ DfEmpty(fb.grid)

(***************************************************************************)
(* C6 (as claimed): crop_page_to_rectangle leaves the page's crop box as   *)
(* it found it, whether it returns or raises.                              *)
(***************************************************************************)
C6_CropBoxRestored == [][pc = "crop" => cropbox' = cropbox]_vars

(***************************************************************************)
(* Specification of the region locator on its own                          *)
(***************************************************************************)
InitLoc ==
    /\ loc_page \in Pages
    /\ loc_result = Raised
    /\ rpc = "ready"
    /\ IdleLines
    /\ IdleGate
    /\ IdleRun
    /\ IdlePipe
    /\ IdleBse

CallLocator ==
    /\ rpc = "ready"
    /\ loc_result' = detect_largest_table_rectangle(loc_page)
    /\ rpc' = "done"
    /\ UNCHANGED <<loc_page, lineVars, gateVars, runVars, pipeVars, bseVars>>

NextLoc == CallLocator

SpecLoc == InitLoc /\ [][NextLoc]_vars

\* the candidate rectangles of strategies (a), (b), (c), (d) on a page, in that
\* order; a strategy that finds nothing contributes no candidate
Candidates(page) ==
    LET a == IF ~page.tables.raises /\ page.tables.list # <<>>
             THEN <<MaxByArea(page.tables.list)>> ELSE <<>>
        large == {page.drawings.list[i].rect : i \in
                     {k \in DOMAIN page.drawings.list :
                         /\ page.drawings.list[k].kind = "re"
                         /\ Abs(page.drawings.list[k].rect.x1
                                - page.drawings.list[k].rect.x0) > 100
                         /\ Abs(page.drawings.list[k].rect.y1
                                - page.drawings.list[k].rect.y0) > 50}}
        b == IF large # {}
             THEN <<CHOOSE r \in large : \A q \in large : Area(q) <= Area(r)>> ELSE <<>>
        nb == NumericBlocks(page.blocks.list)
        c == IF nb # {} THEN <<NumericUnion(nb, page.rect)>> ELSE <<>>
    IN  a \o b \o c \o <<page.rect>>

\* the first candidate of positive area
FirstPositive(cands) ==
    cands[CHOOSE i \in DOMAIN cands :
             /\ PositiveArea(cands[i])
             /\ \A j \in 1..(i - 1) : ~PositiveArea(cands[j])]

(***************************************************************************)
(* C7 (as claimed): detect_largest_table_rectangle never signals an error  *)
(* and returns the rectangle of the first of the strategies (a) largest    *)
(* structured table, (b) largest vector rectangle wider than 100 and       *)
(* taller than 50, (c) padded union of the numeric text blocks, (d) full   *)
(* page, that yields a rectangle of positive area.                         *)
(***************************************************************************)
C7_FirstStrategyNoError ==
    rpc = "done" =>
        /\ ~loc_result.raised
        /\ loc_result.rect = FirstPositive(Candidates(loc_page))

(***************************************************************************)
(* C8 (as claimed): the rectangle returned lies within the page extent,    *)
(* whichever strategy produced it, and is the full page rectangle when no  *)
(* strategy before (d) has a candidate.                                    *)
(***************************************************************************)
C8_RectWithinPage ==
    (rpc = "done" /\ ~loc_result.raised) =>
        /\ Within(loc_result.rect, loc_page.rect)
        /\ Len(Candidates(loc_page)) = 1 => loc_result.rect = loc_page.rect

(***************************************************************************)
(* Specification of the line reconstructor on its own                      *)
(***************************************************************************)
InitLines ==
    /\ file \in LineFiles
    /\ input_words \in SeqsUpTo(LineWords, MaxWords)
    /\ all_words = input_words
    /\ lines = <<>>
    /\ lpc = "ready"
    /\ IdleGate
    /\ IdleLoc
    /\ IdleRun
    /\ IdlePipe
    /\ IdleBse

ReconstructLines ==
    /\ lpc = "ready"
    /\ lines' = reconstruct_lines_intelligently(file, all_words)
    /\ all_words' = SortWords(all_words)
    /\ lpc' = "done"
    /\ UNCHANGED <<file, input_words, gateVars, locVars, runVars, pipeVars,
                   bseVars>>

NextLines == ReconstructLines

SpecLines == InitLines /\ [][NextLines]_vars

(***************************************************************************)
(* C9: for every non-empty word list the lines returned by                 *)
(* reconstruct_lines_intelligently partition the input: every input word   *)
(* occurs in the lines exactly as often as in the input, no other word     *)
(* occurs, and no line is empty.                                           *)
(***************************************************************************)
C9_LinesPartitionInput ==
    (lpc = "done" /\ input_words # <<>>) =>
        /\ lines # <<>>
        /\ \A w \in Range(input_words) \cup Range(Flatten(lines)) :
               Count(w, Flatten(lines)) = Count(w, input_words)
        /\ \A i \in DOMAIN lines : lines[i] # <<>>

\* three words, one of them twice, split over two lines
C9_Witness ==
    /\ lpc = "done"
    /\ Len(input_words) = 3
    /\ Len(lines) = 2
    /\ \E w \in Range(input_words) : Count(w, input_words) = 2

(***************************************************************************)
(* C10 (as claimed): within each returned line the words are ordered by    *)
(* non-decreasing x of the top-left corner.                                *)
(***************************************************************************)
C10_LinesSortedByX ==
    (lpc = "done" /\ input_words # <<>>) =>
        \A k \in DOMAIN lines :
            \A i, j \in DOMAIN lines[k] :
                i < j => lines[k][i].x0 <= lines[k][j].x0

(***************************************************************************)
(* Specification of the reconstruction pipeline on its own                 *)
(***************************************************************************)
InitPipe ==
    /\ p_variant \in PipeVariants
    /\ p_scenario \in PipeScenarios
    /\ p_words \in PipeInputs(p_scenario)
    /\ p_lines = <<>>
    /\ p_bounds = NoBounds
    /\ p_grid = NoGrid
    /\ ppc = "ready"
    /\ IdleLines
    /\ IdleGate
    /\ IdleLoc
    /\ IdleRun
    /\ IdleBse

RunPipeline ==
    /\ ppc = "ready"
    /\ LET r == Pipeline(p_variant, p_words)
       IN  /\ p_lines' = r.lines
           /\ p_bounds' = r.bounds
           /\ p_grid' = r.grid
    /\ ppc' = "done"
    /\ UNCHANGED <<p_variant, p_scenario, p_words, lineVars, gateVars, locVars, runVars,
                   bseVars>>

NextPipe == RunPipeline

SpecPipe == InitPipe /\ [][NextPipe]_vars

\* the boundaries, doubled, that the detector returned
Boundaries2 == p_bounds.boundaries2

\* the detector ran and returned a boundary sequence
BoundsReturned == ppc = "done" /\ ~p_bounds.raised /\ Boundaries2 # <<>>

\* the minimum separation, doubled, of the detector of the variant
MinSeparation2 ==
    IF p_variant = "table_extractor_image" THEN 2 * empty_column_threshold ELSE 2 * 20

(***************************************************************************)
(* C11: every boundary sequence a detector returns starts with 0, is       *)
(* strictly ascending, and has adjacent entries at least the minimum       *)
(* separation apart (20 for the gap detectors, empty_column_threshold for  *)
(* the projection detector).                                               *)
(***************************************************************************)
C11_BoundariesAscendingFromZero ==
    BoundsReturned =>
        /\ Boundaries2[1] = 0
        /\ \A i \in 1..(Len(Boundaries2) - 1) :
              /\ Boundaries2[i] < Boundaries2[i + 1]
              /\ Boundaries2[i + 1] - Boundaries2[i] >= MinSeparation2

\* the gap detector of pdf_process.py has returned a boundary after the leading
\* 0 and has left out a candidate nearer than 20 to a boundary
C11_Witness ==
    /\ BoundsReturned
    /\ p_variant = "pdf_process"
    /\ Len(Boundaries2) >= 2
    /\ Len(BoundaryCandidates2(p_lines, NoiseFreeGaps(p_lines))) >= Len(Boundaries2)

\* the text of the word the synthetic table has at row r, column c
SyntheticCell(r, c) ==
    LET d == <<"1", "2", "3">>
        w == CHOOSE w \in Range(p_words) :
                 w.text[Len(w.text) - 1] = d[r] /\ w.text[Len(w.text)] = d[c]
    IN  w.text

(***************************************************************************)
(* C12: on the nine words of the synthetic table of 3 rows and 3 columns   *)
(* (column gap 40, row gap 50) the pipeline of Final_pdf_processing.py and *)
(* of pdf_process.py reconstructs exactly 3 lines, detects exactly 3       *)
(* boundaries and builds a grid of 3 rows and 3 columns in which each cell *)
(* holds the text of the word at that place.                               *)
(***************************************************************************)
C12_SyntheticGridRecovered ==
    (/\ ppc = "done"
     /\ p_scenario = "grid3x3"
     /\ p_variant \in {"Final_pdf_processing", "pdf_process"}) =>
        /\ Len(p_lines) = 3
        /\ ~p_bounds.raised
        /\ Len(Boundaries2) = 3
        /\ ~p_grid.raised
        /\ p_grid.grid = [r \in 1..3 |-> [c \in 1..3 |-> SyntheticCell(r, c)]]

\* the cells of the grid
GridCells == UNION {Range(p_grid.grid[r]) : r \in DOMAIN p_grid.grid}

(***************************************************************************)
(* C13: the words "(", "1,234", ")" that follow each other on one line at  *)
(* small gaps are joined into the cell text "(1,234)" with no space inside *)
(* it, by the grid builder of the main pipeline (build_table_by_spacing)   *)
(* as well as by build_table_with_correct_rows.                            *)
(***************************************************************************)
C13_ParenthesesJoined ==
    (/\ ppc = "done"
     /\ p_scenario = "paren"
     /\ p_variant \in {"Final_pdf_processing", "table_extractor_image"}) =>
        /\ ~p_grid.raised
        /\ \E cell \in GridCells : Contains(cell, <<"(", "1", ",", "2", "3", "4", ")">>)

(***************************************************************************)
(* C14: when the recognition response holds no words,                      *)
(* extract_table_from_image_data returns an empty grid and raises no       *)
(* error, in Final_pdf_processing.py and in pdf_process.py.                *)
(***************************************************************************)
C14_NoWordsEmptyGrid ==
    (/\ ppc = "done"
     /\ p_words = <<>>
     /\ p_variant \in {"Final_pdf_processing", "pdf_process"}) =>
        /\ ~p_grid.raised
        /\ p_grid.grid = <<>>

\* is_numeric_like of the file
IsNumericLike(f, text) ==
    IF f = "Final_pdf_processing" THEN is_numeric_like_final(text)
    ELSE is_numeric_like_simple(text)

\* words i < j of the line are numeric and no numeric word stands between them
AdjacentNumeric(f, line, i, j) ==
    /\ i < j
    /\ IsNumericLike(f, line[i].text)
    /\ IsNumericLike(f, line[j].text)
    /\ \A k \in (i + 1)..(j - 1) : ~IsNumericLike(f, line[k].text)

\* no gap between adjacent numeric words of a line exceeds the noise floor 5
NoStructure ==
    \A k \in DOMAIN p_lines :
        \A i, j \in DOMAIN p_lines[k] :
            AdjacentNumeric(p_variant, p_lines[k], i, j) =>
                p_lines[k][j].x0 - p_lines[k][i].x1 <= 5

\* the detector of the variant was called on the lines
DetectorCalled ==
    /\ ppc = "done"
    /\ p_variant \in {"Final_pdf_processing", "pdf_process", "table4"}
    /\ p_variant = "Final_pdf_processing" => p_lines # <<>>

(***************************************************************************)
(* C15: detect_boundaries_by_gaps raises (it returns no boundary list)     *)
(* whenever no gap between adjacent numeric words of any line exceeds the  *)
(* noise floor, the lines without numeric words included.  As stated for   *)
(* the detector of all three files.                                        *)
(***************************************************************************)
C15_NoStructureRaises ==
    DetectorCalled /\ NoStructure => p_bounds.raised

(***************************************************************************)
(* C15, as the code has it: the detector of pdf_process.py and table4.py   *)
(* raises exactly when no gap between adjacent numeric words exceeds the   *)
(* noise floor, and the error leaves extract_table_from_image_data (no     *)
(* grid is built); the detector of Final_pdf_processing.py never raises    *)
(* and always returns a boundary list.                                     *)
(***************************************************************************)
C15_NoStructureRaisesPerFile ==
    DetectorCalled =>
        IF p_variant = "Final_pdf_processing"
        THEN /\ ~p_bounds.raised
             /\ Boundaries2 # <<>>
        ELSE /\ p_bounds.raised <=> NoStructure
             /\ p_bounds.raised => p_grid.raised

\* pdf_process.py: a line holds adjacent numeric words, none of their gaps
\* exceeds the noise floor, and the detector has raised
C15_Witness ==
    /\ DetectorCalled
    /\ p_variant = "pdf_process"
    /\ NoStructure
    /\ \E k \in DOMAIN p_lines :
          \E i, j \in DOMAIN p_lines[k] : AdjacentNumeric(p_variant, p_lines[k], i, j)
    /\ p_bounds.raised
    /\ p_grid.raised

(***************************************************************************)
(* C16: a recognition response that carries an error message reaches       *)
(* process_pdf_for_tables as an outcome of its own: the caller does not    *)
(* receive the empty grid it receives when the response holds no words.    *)
(***************************************************************************)
C16_ServiceErrorSurfaced ==
    ocr = "error" => ~(df.set /\ DfEmpty(df.grid))

(***************************************************************************)
(* C17: when the input document is missing, the run ends before any page   *)
(* is processed and before any output is written, and the script ends with *)
(* a non-zero exit status, unlike a run that extracted no table.           *)
(***************************************************************************)
C17_MissingDocumentFails ==
    (pc = "exited" /\ ~pdf_exists) =>
        /\ visited = {}
        /\ calls = {}
        /\ sheets = <<>>
        /\ exit_status # "0"

(***************************************************************************)
(* C18: every grid is rectangular: all its rows have the same number of    *)
(* cells, and that number is the number of boundaries the detector         *)
(* returned.                                                               *)
(***************************************************************************)
C18_GridRectangular ==
    (ppc = "done" /\ ~p_grid.raised /\ p_grid.grid # <<>>) =>
        \A r \in DOMAIN p_grid.grid : Len(p_grid.grid[r]) = Len(Boundaries2)

\* the grid the current page has ready for a sheet of the kind
FinalGrid(kind) == IF kind = "Page_Table" THEN df.grid ELSE fb.grid

\* what holds of the workbook in every state
SheetsInOrder ==
    /\ \A i \in DOMAIN sheets :
          /\ ~DfEmpty(sheets[i].grid)
          /\ sheets[i].kind \in {"Page_Table", "Fallback"}
          /\ sheets[i].page \in 1..NumPages
          /\ sheets[i].page <= CurPageNo
          /\ sheets[i].page = CurPageNo =>
                /\ page_status = IF sheets[i].kind = "Page_Table" THEN "written"
                                 ELSE "fallback_written"
                /\ sheets[i].grid = FinalGrid(sheets[i].kind)
    /\ \A i, j \in DOMAIN sheets : i # j => sheets[i].page # sheets[j].page

\* a step leaves the sheets of the workbook as they are and adds at most one
SheetsAppendOnly ==
    /\ Len(sheets') \in {Len(sheets), Len(sheets) + 1}
    /\ \A i \in DOMAIN sheets : sheets'[i] = sheets[i]

(***************************************************************************)
(* C19: a sheet enters the workbook only for a page whose grid is final    *)
(* and not empty, and holds the whole of that grid; a sheet once written   *)
(* is never changed; a page has at most one sheet; the name of a sheet     *)
(* gives the page number and the kind ('Page_<n>_Table' or                 *)
(* 'Fallback_<n>'); no two sheets share a name.                            *)
(***************************************************************************)
C19_SheetsWholeAndUnique == []SheetsInOrder /\ [][SheetsAppendOnly]_vars

\* the workbook of a finished run holds a sheet of the primary pipeline and a
\* sheet of the fallback
C19_Witness ==
    /\ pc = "done"
    /\ Len(sheets) = 2
    /\ {sheets[i].kind : i \in DOMAIN sheets} = {"Page_Table", "Fallback"}

\* the positions of the histogram that are valley positions (count <= 1)
ValleyPositions ==
    LET numeric_words == NumericWords(p_words)
    IN  {i \in 0..ProjectionMaxX(p_words) : Histogram(numeric_words, i) <= 1}

\* a..b is a maximal run of valley positions
MaximalValleyRun(valley, a, b) ==
    /\ a <= b
    /\ \A i \in a..b : i \in valley
    /\ (a - 1) \notin valley
    /\ (b + 1) \notin valley

(***************************************************************************)
(* C20: every boundary that detect_boundaries_with_projection returns      *)
(* after the leading 0 is the midpoint of a maximal run of valley          *)
(* positions of the histogram of the numeric words' spans (up to the       *)
(* rounding of a half).                                                    *)
(***************************************************************************)
C20_BoundaryIsValleyMidpoint ==
    (BoundsReturned /\ p_variant = "table_extractor_image") =>
        LET valley == ValleyPositions
        IN  \A j \in 2..Len(Boundaries2) :
                \E a, b \in valley :
                    /\ MaximalValleyRun(valley, a, b)
                    /\ Abs(Boundaries2[j] - (a + b)) <= 1


(***************************************************************************)
(* The announcement fetchers: fetch_announcements (bse_live_data.py) and   *)
(* the loop of get_bse_csv (bse_result_Scraper.py)                         *)
(*                                                                         *)
(* An item of the service's 'Table' is a record [SLONGNAME,                *)
(* ATTACHMENTNAME, SCRIP_CD]; a key that is absent reads as "" through     *)
(* item.get(key, '').  A response is [kind, table]: kind "raises" stands   *)
(* for every exception of requests.get, raise_for_status, response.json    *)
(* and data.get; kind "table" carries data.get('Table', []).               *)
(***************************************************************************)
FetchFiles == {"bse_live_data", "bse_result_Scraper"}

\* while page_num <= 20
page_limit == 20

AttachLive == "https://www.bseindia.com/xml-data/corpfiling/AttachLive/"

create_pdf_url(attachment_name) ==
    IF attachment_name # "" THEN AttachLive \o attachment_name ELSE ""

\* if company_name and attachment_name
KeepItem(item) == item.SLONGNAME # "" /\ item.ATTACHMENTNAME # ""

NewRow(item) ==
    [Company_Name |-> item.SLONGNAME,
     Scrip_CD |-> item.SCRIP_CD,
     PDF_Link |-> create_pdf_url(item.ATTACHMENTNAME)]

\* for item in table: ... announcements.append({...})
RECURSIVE AppendItems(_, _)
AppendItems(rows, table) ==
    IF table = <<>> THEN rows
    ELSE AppendItems(IF KeepItem(Head(table)) THEN Append(rows, NewRow(Head(table)))
                     ELSE rows,
                     Tail(table))

\* a variant of the loop body that starts the list again when a request fails
LoopBody_discards_on_failure(n, rows, response) ==
    IF response.kind = "raises"
    THEN [page_num |-> n, announcements |-> <<>>, broke |-> TRUE]
    ELSE IF response.table = <<>>
    THEN [page_num |-> n, announcements |-> rows, broke |-> TRUE]
    ELSE [page_num |-> n + 1, announcements |-> AppendItems(rows, response.table),
          broke |-> FALSE]

\* one pass of the body of while page_num <= 20
LoopBody(n, rows, response) ==
    IF response.kind = "raises"
    THEN [page_num |-> n, announcements |-> rows, broke |-> TRUE]
    ELSE IF response.table = <<>>
    THEN [page_num |-> n, announcements |-> rows, broke |-> TRUE]
    ELSE [page_num |-> n + 1, announcements |-> AppendItems(rows, response.table),
          broke |-> FALSE]

\* the inputs: what the service answers to the request of page n
MaxTableItems == 2
VariedPages == 1
CompanyNames == {"", "ACME"}
AttachmentNames == {"", "a.pdf"}

\* the items of page n: with both names, without a company name, without an
\* attachment name
Items(n) ==
    {[SLONGNAME |-> c[1], ATTACHMENTNAME |-> c[2], SCRIP_CD |-> n] :
        c \in {d \in CompanyNames \X AttachmentNames : d[1] # "" \/ d[2] # ""}}

Raises == [kind |-> "raises", table |-> <<>>]

TableResponse(table) == [kind |-> "table", table |-> table]

Responses(n) ==
    {Raises} \cup
    IF n <= VariedPages
    THEN {TableResponse(t) : t \in SeqsUpTo(Items(n), MaxTableItems)}
    ELSE {TableResponse(<<>>),
          TableResponse(<<[SLONGNAME |-> "ACME", ATTACHMENTNAME |-> "a.pdf",
                           SCRIP_CD |-> n]>>)}

NoResult == [kind |-> "none", rows |-> <<>>]

InitFetch ==
    /\ fetch_file \in FetchFiles
    /\ fetch_page_num = 1
    /\ announcements = <<>>
    /\ requested = <<>>
    /\ served = <<>>
    /\ fetch_result = NoResult
    /\ fpc = "loop"
    /\ IdleLines
    /\ IdleGate
    /\ IdleLoc
    /\ IdleRun
    /\ IdlePipe
    /\ IdleMonitor

\* one iteration of the while loop: the request of page page_num and what follows
FetchPage ==
    /\ fpc = "loop"
    /\ fetch_page_num <= page_limit
    /\ \E response \in Responses(fetch_page_num) :
        LET r == LoopBody(fetch_page_num, announcements, response)
        IN  /\ requested' = Append(requested, fetch_page_num)
            /\ served' = Append(served, response)
            /\ fetch_page_num' = r.page_num
            /\ announcements' = r.announcements
            /\ fpc' = IF r.broke THEN "stopped" ELSE "loop"
    /\ UNCHANGED <<fetch_file, fetch_result, lineVars, gateVars, locVars, runVars,
                   pipeVars, monVars>>

\* df.to_csv(filename, index=False) of get_bse_csv succeeds or raises
ToCsvOutcomes == {"filename", "raises"}

\* after the loop: return announcements, or write the CSV and return its name
FetchReturn ==
    /\ \/ fpc = "stopped"
       \/ fpc = "loop" /\ fetch_page_num > page_limit
    /\ \E written \in ToCsvOutcomes :
        fetch_result' =
            IF fetch_file = "bse_live_data"
            THEN [kind |-> "list", rows |-> announcements]
            ELSE IF announcements = <<>>
            THEN [kind |-> "None", rows |-> <<>>]
            ELSE [kind |-> written,
                  rows |-> IF written = "filename" THEN announcements ELSE <<>>]
    /\ fpc' = "returned"
    /\ UNCHANGED <<fetch_file, fetch_page_num, announcements, requested, served,
                   lineVars, gateVars, locVars, runVars, pipeVars, monVars>>

NextFetch ==
    \/ FetchPage
    \/ FetchReturn

\* The loop is sequential code: every request ends within its timeout of 10
\* seconds (src/bse_live_data.py:38), so a step that is possible is taken.
SpecFetch == InitFetch /\ [][NextFetch]_vars /\ WF_vars(NextFetch)

\* the response ends the loop: the request failed or the table is empty
Stops(response) == response.kind = "raises" \/ response.table = <<>>

\* the rows of the items with both names, page after page, of the first n responses
RECURSIVE RowsOfPages(_)
RowsOfPages(n) ==
    IF n = 0 THEN <<>>
    ELSE RowsOfPages(n - 1) \o
         (IF Stops(served[n]) THEN <<>>
          ELSE LET kept == SelectSeq(served[n].table,
                                     LAMBDA item : item.SLONGNAME # ""
                                                   /\ item.ATTACHMENTNAME # "")
               IN  [i \in DOMAIN kept |->
                       [Company_Name |-> kept[i].SLONGNAME,
                        Scrip_CD |-> kept[i].SCRIP_CD,
                        PDF_Link |-> AttachLive \o kept[i].ATTACHMENTNAME]])

RequestsConsecutive ==
    /\ Len(requested) <= 20
    /\ \A i \in DOMAIN requested : requested[i] = i

StopsAtFirstStoppingPage ==
    /\ Len(served) = Len(requested)
    /\ \A i \in DOMAIN served : Stops(served[i]) => i = Len(served)
    /\ fpc = "loop" => \A i \in DOMAIN served : ~Stops(served[i])
    /\ fpc \in {"stopped", "returned"} =>
           \/ served # <<>> /\ Stops(served[Len(served)])
           \/ Len(served) = 20

AccumulatedKept ==
    /\ announcements = RowsOfPages(Len(served))
    /\ \A i \in DOMAIN announcements :
           announcements[i].Company_Name # "" /\ announcements[i].PDF_Link # ""
    /\ fpc = "returned" /\ fetch_file = "bse_live_data" =>
           fetch_result = [kind |-> "list", rows |-> RowsOfPages(Len(served))]

FetchSafe == RequestsConsecutive /\ StopsAtFirstStoppingPage /\ AccumulatedKept

\* C22: the fetch loop requests the pages 1, 2, 3, ... in order, at most 20 of
\* them and none twice; it stops at the first page whose request fails or whose
\* table is empty; the rows accumulated are those of the items with a
\* non-empty company name and a non-empty attachment name of all the pages
\* before that one, in order, and fetch_announcements returns exactly them;
\* and the function always returns.
C22_FetchTerminatesWithAccumulated == []FetchSafe /\ <>(fpc = "returned")

\* fetch_announcements has returned after the request of a page k >= 2 failed:
\* the rows of the earlier pages are returned, and an item without a company
\* name or without an attachment name was served and left out
C22_Witness ==
    /\ fpc = "returned"
    /\ fetch_file = "bse_live_data"
    /\ Len(served) >= 2
    /\ served[Len(served)].kind = "raises"
    /\ fetch_result.rows # <<>>
    /\ \E i \in DOMAIN served : \E j \in DOMAIN served[i].table :
           served[i].table[j].SLONGNAME = "" \/ served[i].table[j].ATTACHMENTNAME = ""


(***************************************************************************)
(* The live monitor monitor_bse (bse_live_data.py)                         *)
(*                                                                         *)
(* The CSV file is the sequence of its PDF_Link cells, row by row.  One    *)
(* step is one iteration of the while True loop: the fetch, the selection  *)
(* of new_rows, the append to the file and the update of seen_links.       *)
(***************************************************************************)
MaxPolls == 3
MaxNewData == 2
MaxCsvRows == 2
MonitorAttachments == {"a.pdf", "b.pdf"}

\* the rows fetch_announcements can return: items with both names
MonitorRows ==
    {NewRow([SLONGNAME |-> "ACME", ATTACHMENTNAME |-> a, SCRIP_CD |-> 1]) :
        a \in MonitorAttachments}

FetchResults == SeqsUpTo(MonitorRows, MaxNewData)

MonitorLinks == {row.PDF_Link : row \in MonitorRows}

InitMonitor ==
    /\ csv_exists \in BOOLEAN
    /\ csv_links \in IF csv_exists THEN SeqsUpTo(MonitorLinks, MaxCsvRows) ELSE {<<>>}
    /\ seen_links = {}
    /\ appended = <<>>
    /\ last_rows = <<>>
    /\ polls = 0
    /\ mpc = "start"
    /\ IdleLines
    /\ IdleGate
    /\ IdleLoc
    /\ IdleRun
    /\ IdlePipe
    /\ IdleFetch

\* pd.read_csv(filename) returns the frame or raises
ReadCsvOutcomes == IF csv_exists THEN {"read", "raises"} ELSE {"absent"}

\* the start-up of monitor_bse: seen_links from the file, if there is one
MonitorStart ==
    /\ mpc = "start"
    /\ \E outcome \in ReadCsvOutcomes :
        /\ seen_links' = IF outcome = "read"
                         THEN {csv_links[i] : i \in DOMAIN csv_links}
                         ELSE {}
        /\ mpc' = IF outcome = "raises" THEN "crashed" ELSE "polling"
    /\ UNCHANGED <<csv_exists, csv_links, appended, last_rows, polls,
                   lineVars, gateVars, locVars, runVars, pipeVars, fetchVars>>

\* new_rows = [row for row in new_data if row['PDF_Link'] not in seen_links]
NewRows(new_data, seen) == SelectSeq(new_data, LAMBDA row : row.PDF_Link \notin seen)

LinksOf(rows) == [i \in DOMAIN rows |-> rows[i].PDF_Link]

\* df_new.to_csv(filename, mode='a', ...) appends the rows or raises
AppendOutcomes == {"appended", "raises"}

\* one iteration of while True
Poll ==
    /\ mpc = "polling"
    /\ polls < MaxPolls
    /\ \E new_data \in FetchResults, outcome \in AppendOutcomes :
        LET new_rows == IF new_data = <<>> THEN <<>> ELSE NewRows(new_data, seen_links)
            links == LinksOf(new_rows)
        IN  IF new_rows = <<>>
            THEN /\ last_rows' = <<>>
                 /\ polls' = polls + 1
                 /\ UNCHANGED <<csv_exists, csv_links, seen_links, appended, mpc>>
            ELSE IF outcome = "raises"
            THEN /\ mpc' = "crashed"
                 /\ last_rows' = <<>>
                 /\ UNCHANGED <<csv_exists, csv_links, seen_links, appended, polls>>
            ELSE /\ csv_links' = csv_links \o links
                 /\ csv_exists' = TRUE
                 /\ appended' = appended \o links
                 /\ seen_links' = seen_links \cup {links[i] : i \in DOMAIN links}
                 /\ last_rows' = links
                 /\ polls' = polls + 1
                 /\ UNCHANGED mpc
    /\ UNCHANGED <<lineVars, gateVars, locVars, runVars, pipeVars, fetchVars>>

NextMonitor ==
    \/ MonitorStart
    \/ Poll

SpecMonitor == InitMonitor /\ [][NextMonitor]_vars

\* the rows the file held when monitor_bse started
StartupLinks == SubSeq(csv_links, 1, Len(csv_links) - Len(appended))

AppendedOnce == \A i, j \in DOMAIN appended : i # j => appended[i] # appended[j]

StartupNotAppended ==
    \A i \in DOMAIN appended : \A j \in DOMAIN StartupLinks : appended[i] # StartupLinks[j]

AppendedSeen ==
    mpc = "polling" => \A i \in DOMAIN appended : appended[i] \in seen_links

\* C21: whatever the fetches return, also a result that lists one PDF link
\* twice, and whatever the CSV file held at start-up, no PDF_Link is appended
\* to the file more than once (nor appended when the file held it at start-up),
\* and every link appended is in seen_links from the end of its iteration on.
C21_NoLinkAppendedTwice == AppendedOnce /\ StartupNotAppended /\ AppendedSeen

\* what holds of monitor_bse: a link that was seen before an iteration, in the
\* file at start-up or appended by an earlier iteration, is not appended by it,
\* and every link appended is in seen_links afterwards
SeenLinksNotAppended ==
    /\ StartupNotAppended
    /\ AppendedSeen
    /\ \A i \in DOMAIN last_rows : \A j \in DOMAIN appended :
           j <= Len(appended) - Len(last_rows) => appended[j] # last_rows[i]

=============================================================================
